---- MODULE Spec2Model ----
(***************************************************************************)
(* Streaming GeoJSON chunker of wpdb-geodatabase-processor.                *)
(*                                                                         *)
(* Spec          : preprocessor.js, MemorySafeProcessor.processAllRegions  *)
(*                 driving processRegion's readline handlers and           *)
(*                 writeChunk.                                             *)
(* SpecFeatureProcessor : tile-generator.js (third script), processRegion  *)
(*                 with FeatureProcessor.addFeature / writeChunk / finish. *)
(* SpecInspector : file-inspector.js, FileInspector.inspectRegion, the     *)
(*                 same brace-depth scanner with the 10 MB ceiling.        *)
(* SpecTiles     : the three chunk writers at the level of parsed features *)
(*                 (coordinate optimizers, chunk file names) and           *)
(*                 tile-generator.js, TileGenerator, reading their chunks. *)
(* SpecRerun     : the same writers and TileGenerator, with a region run   *)
(*                 again while its index is cached.                        *)
(* SpecBounds    : TileGenerator.boundsIntersect on pairs of boxes.        *)
(* SpecProperties: optimizeProperties of GeoJSONProcessor and              *)
(*                 FeatureProcessor on one properties object.              *)
(* SpecAnyBounds : boundsIntersect on boxes of any shape.                  *)
(* SpecIds       : the ids GeoJSONProcessor and FeatureProcessor give the  *)
(*                 features of a region.                                   *)
(* SpecProxy     : cors-proxy-2/server.js, one request and its upstream    *)
(*                 request.                                                *)
(*                                                                         *)
(* Text is modelled as a sequence of one-character strings.  A few         *)
(* characters stand for a run of JSON text that the scanner treats like    *)
(* any other non-brace character:                                          *)
(*   "M"  the substring  "features":                                       *)
(*   "t"  the member     "type":"Feature",                                 *)
(*   "g"  the key        "geometry":    (its value follows)                *)
(*   "o"  any other well-formed JSON text (a property, a number)           *)
(*   "x"  text that is not JSON (a cut string, a stray token)              *)
(* "{" "}" "[" "]" "," and " " are themselves.                             *)
(***************************************************************************)
EXTENDS Integers, Sequences, FiniteSets, TLC

VARIABLES
    regionIdx,      \* processAllRegions: index into Regions of the region in hand
    phase,          \* position of processAllRegions / processRegion
    inputExists,    \* fs.existsSync(inputFile) per region
    inFeatures,     \* processRegion: let inFeatures
    currentFeature, \* processRegion: let currentFeature
    braceDepth,     \* processRegion: let braceDepth
    lineCount,      \* processRegion: let lineCount
    currentChunk,   \* this.currentChunk
    chunkIndex,     \* this.chunkIndex
    featureCount,   \* this.featureCount
    files,          \* the chunk directory of every region: chunk index -> file
    totalFeatures,  \* processAllRegions: let totalFeatures
    reports,        \* htmlReporter.addRegionData records
    input,          \* history: the lines the current region's stream has delivered
    linesRead,      \* history: lines delivered over all regions
    failures,       \* history: write failures so far
    swallowed,      \* history: write failures of this region caught by the line handler
    counted,        \* history (inspector): where each featureCount++ of inspectRegion ran
    writer,         \* which chunk writer class filled the chunk directory
    tileIndex,      \* TileGenerator: this.tileIndex
    result,         \* TileGenerator: outcome of the last getFeaturesForTile call
    removed         \* history: chunk files removed, and whether the region had an index then

vars == <<regionIdx, phase, inputExists, inFeatures, currentFeature, braceDepth,
          lineCount, currentChunk, chunkIndex, featureCount, files, totalFeatures,
          reports, input, linesRead, failures, swallowed, counted,
          writer, tileIndex, result, removed>>

tileVars == <<writer, tileIndex, result, removed>>

---------------------------------------------------------------------------
(* Bounds *)

MaxLines == 4
MaxWriteFailures == 1
FeaturesPerChunk == 2
Ceiling == 6

Regions == <<"af", "as">>
RegionSet == {Regions[i] : i \in 1..Len(Regions)}

---------------------------------------------------------------------------
(* Input lines *)

LMarker == <<"{", "M", "[">>
LFeat   == <<"{", "t", "g", "{", "}", "}", ",">>
LNoGeom == <<"{", "t", "}">>
LBad    == <<"{", "t", "x", "}", ",">>
LOpen   == <<"{", "t", "g", "{", "[">>
LBr     == <<" ", "]">>
LClose  == <<"}", "}">>
LEnd    == <<"]", "}">>
LTwoEnd == <<"{", "t", "g", "{", "}", "}", ",", "{", "t", "g", "{", "}", "}", "]", "}">>
LNoType == <<"{", "o", "}", ",">>

Lines == {LMarker, LFeat, LNoGeom, LNoType, LBad, LOpen, LBr, LClose, LEnd, LTwoEnd}

---------------------------------------------------------------------------
(* String primitives *)

RECURSIVE TrimStart(_)
TrimStart(s) ==
    IF s # <<>> /\ Head(s) = " " THEN TrimStart(Tail(s)) ELSE s

RECURSIVE TrimEnd(_)
TrimEnd(s) ==
    IF s # <<>> /\ s[Len(s)] = " " THEN TrimEnd(SubSeq(s, 1, Len(s) - 1)) ELSE s

Trim(s) == TrimEnd(TrimStart(s))

Includes(s, c) == \E i \in 1..Len(s) : s[i] = c

EndsWith(s, c) == s # <<>> /\ s[Len(s)] = c

IsFeaturesMarker(trimmed) == Includes(trimmed, "M") /\ Includes(trimmed, "[")

IsArrayEnd(trimmed) ==
    \/ trimmed = <<"]">>
    \/ trimmed = <<"]", ",">>
    \/ trimmed = <<"]", "}">>

---------------------------------------------------------------------------
(* JSON.parse on the text of one delimited object *)

Opener(c) == IF c = "}" THEN "{" ELSE "["

RECURSIVE Nesting(_, _, _)
Nesting(text, i, stack) ==
    IF i > Len(text) THEN stack
    ELSE IF text[i] \in {"{", "["} THEN Nesting(text, i + 1, Append(stack, text[i]))
    ELSE IF text[i] \in {"}", "]"} THEN
        IF stack # <<>> /\ stack[Len(stack)] = Opener(text[i])
        THEN Nesting(text, i + 1, SubSeq(stack, 1, Len(stack) - 1))
        ELSE <<"!">>
    ELSE Nesting(text, i + 1, stack)

DepthBefore(text, i) ==
    Cardinality({j \in 1..(i - 1) : text[j] \in {"{", "["}})
    - Cardinality({j \in 1..(i - 1) : text[j] \in {"}", "]"}})

JsonParses(text) ==
    /\ text # <<>>
    /\ text[1] = "{"
    /\ text[Len(text)] = "}"
    /\ Nesting(text, 1, <<>>) = <<>>
    /\ \A i \in 2..Len(text) : DepthBefore(text, i) > 0
    /\ ~Includes(text, "x")

JsonParse(text) ==
    [ok       |-> JsonParses(text),
     type     |-> IF \E i \in 1..Len(text) : text[i] = "t" /\ DepthBefore(text, i) = 1
                  THEN "Feature" ELSE "none",
     geometry |-> \E i \in 1..(Len(text) - 1) :
                      text[i] = "g" /\ DepthBefore(text, i) = 1 /\ text[i + 1] = "{"]

---------------------------------------------------------------------------
(* MemorySafeProcessor (preprocessor.js) *)

Null == [type |-> "null", at |-> <<0, 0>>]

\* optimizeFeature: null without geometry, else the reduced feature.  `at` is
\* the source position (line, column of the closing brace) the feature was
\* delimited at; it stands for the feature's own coordinates and properties.
OptimizeFeature(feature) ==
    IF ~feature.geometry THEN Null
    ELSE [type |-> "Feature", at |-> feature.at]

\* this.currentChunk.push(optimized)
PushFeatureFront(chunk, optimized) == <<optimized>> \o chunk
PushFeature(chunk, optimized) == Append(chunk, optimized)

\* this.chunkIndex++
SkipChunkIndex(n) == n + 2
NextChunkIndex(n) == n + 1

\* `chunk_${this.chunkIndex}.json` under outputDir = chunks/<regionCode>
ChunkData(s) ==
    [complete |-> TRUE,
     features |-> s.currentChunk,
     region   |-> s.region,
     chunk    |-> s.chunkIndex,
     count    |-> Len(s.currentChunk)]

\* what a failed fs.writeFileSync may leave behind: a truncated file
PartialFile == [complete |-> FALSE, features |-> <<>>, region |-> "", chunk |-> 0, count |-> 0]

PutFile(dir, idx, content) ==
    [i \in DOMAIN dir \cup {idx} |-> IF i = idx THEN content ELSE dir[i]]

\* writeChunk.  s.toFail > 0: fs.writeFileSync throws on this call.
WriteChunkUnguarded(s) ==
    IF s.toFail > 0
    THEN [s EXCEPT !.toFail = @ - 1,
                   !.failed = @ + 1,
                   !.threw  = TRUE,
                   !.dir    = IF s.partial THEN PutFile(@, s.chunkIndex, PartialFile) ELSE @]
    ELSE [s EXCEPT !.dir          = PutFile(@, s.chunkIndex, ChunkData(s)),
                   !.currentChunk = <<>>,
                   !.chunkIndex   = NextChunkIndex(@)]
WriteChunk(s) ==
    IF Len(s.currentChunk) = 0 THEN s
    ELSE IF s.toFail > 0
    THEN [s EXCEPT !.toFail = @ - 1,
                   !.failed = @ + 1,
                   !.threw  = TRUE,
                   !.dir    = IF s.partial THEN PutFile(@, s.chunkIndex, PartialFile) ELSE @]
    ELSE [s EXCEPT !.dir          = PutFile(@, s.chunkIndex, ChunkData(s)),
                   !.currentChunk = <<>>,
                   !.chunkIndex   = NextChunkIndex(@)]

\* catch (error) { /* Skip parse errors */ }
Catch(s) ==
    [s EXCEPT !.threw = FALSE, !.swallowed = @ + (IF s.threw THEN 1 ELSE 0)]

\* cleanFeature.endsWith(',') ? cleanFeature.slice(0, -1) : cleanFeature
CleanFeature(text) ==
    IF EndsWith(text, ",") THEN SubSeq(text, 1, Len(text) - 1) ELSE text

\* the try block run when braceDepth returns to 0
FeatureClosed(s, at) ==
    LET clean   == CleanFeature(s.currentFeature)
        parsed  == JsonParse(clean)
        feature == [type |-> parsed.type, geometry |-> parsed.geometry, at |-> at]
    IN  IF ~parsed.ok THEN s
        ELSE IF feature.type = "Feature" /\ feature.geometry
        THEN LET optimized == OptimizeFeature(feature)
             IN  IF optimized = Null THEN s
                 ELSE LET s2 == [s EXCEPT !.currentChunk = PushFeature(@, optimized),
                                          !.featureCount = @ + 1]
                      IN  IF Len(s2.currentChunk) >= FeaturesPerChunk
                          THEN Catch(WriteChunk(s2))
                          ELSE s2
        ELSE s

\* one iteration of the character loop
ScanCharUncleared(s, char, at) ==
    IF char = "{" /\ s.braceDepth = 0
    THEN [s EXCEPT !.currentFeature = <<"{">>, !.braceDepth = 1]
    ELSE IF char = "{" /\ s.braceDepth > 0
    THEN [s EXCEPT !.currentFeature = Append(@, char), !.braceDepth = @ + 1]
    ELSE IF char = "}" /\ s.braceDepth > 0
    THEN LET s1 == [s EXCEPT !.currentFeature = Append(@, char), !.braceDepth = @ - 1]
         IN  IF s1.braceDepth = 0 THEN FeatureClosed(s1, at) ELSE s1
    ELSE IF s.braceDepth > 0
    THEN [s EXCEPT !.currentFeature = Append(@, char)]
    ELSE s
ScanChar(s, char, at) ==
    IF char = "{" /\ s.braceDepth = 0
    THEN [s EXCEPT !.currentFeature = <<"{">>, !.braceDepth = 1]
    ELSE IF char = "{" /\ s.braceDepth > 0
    THEN [s EXCEPT !.currentFeature = Append(@, char), !.braceDepth = @ + 1]
    ELSE IF char = "}" /\ s.braceDepth > 0
    THEN LET s1 == [s EXCEPT !.currentFeature = Append(@, char), !.braceDepth = @ - 1]
         IN  IF s1.braceDepth = 0
             THEN [FeatureClosed(s1, at) EXCEPT !.currentFeature = <<>>]
             ELSE s1
    ELSE IF s.braceDepth > 0
    THEN [s EXCEPT !.currentFeature = Append(@, char)]
    ELSE s

\* for (let i = 0; i < trimmed.length; i++): columns are counted in the raw line
RECURSIVE ScanLine(_, _, _, _, _)
ScanLine(s, trimmed, i, lineNo, indent) ==
    IF i > Len(trimmed) THEN s
    ELSE ScanLine(ScanChar(s, trimmed[i], <<lineNo, indent + i>>),
                  trimmed, i + 1, lineNo, indent)

Indent(line) == Len(line) - Len(TrimStart(line))

\* the processor and scanner state a line handler starts from
Scanner(toFail, partial) ==
    [currentFeature |-> currentFeature,
     braceDepth     |-> braceDepth,
     currentChunk   |-> currentChunk,
     chunkIndex     |-> chunkIndex,
     featureCount   |-> featureCount,
     region         |-> Regions[regionIdx],
     dir            |-> files[Regions[regionIdx]],
     toFail         |-> toFail,
     partial        |-> partial,
     failed         |-> 0,
     swallowed      |-> swallowed,
     threw          |-> FALSE]

NoFile == [i \in {} |-> PartialFile]

Init ==
    /\ regionIdx = 1
    /\ phase = "idle"
    /\ inputExists \in [RegionSet -> BOOLEAN]
    /\ inFeatures = FALSE
    /\ currentFeature = <<>>
    /\ braceDepth = 0
    /\ lineCount = 0
    /\ currentChunk = <<>>
    /\ chunkIndex = 0
    /\ featureCount = 0
    /\ files = [r \in RegionSet |-> NoFile]
    /\ totalFeatures = 0
    /\ reports = <<>>
    /\ input = <<>>
    /\ linesRead = 0
    /\ failures = 0
    /\ swallowed = 0
    /\ counted = <<>>
    /\ writer = ""
    /\ tileIndex = <<>>
    /\ result = <<>>
    /\ removed = {}

AfterRegion == IF regionIdx < Len(Regions) THEN "idle" ELSE "finished"

\* processRegion, input file missing: return 0
SkipMissingRegion ==
    /\ phase = "idle"
    /\ ~inputExists[Regions[regionIdx]]
    /\ totalFeatures' = totalFeatures + 0
    /\ phase' = AfterRegion
    /\ regionIdx' = regionIdx + 1
    /\ UNCHANGED <<inputExists, inFeatures, currentFeature, braceDepth, lineCount,
                   currentChunk, chunkIndex, featureCount, files, reports, input,
                   linesRead, failures, swallowed, counted>>
    /\ UNCHANGED tileVars

\* const count = await this.processRegion(region): the loop calls
\* processRegion for a region only once the promise of the region before it
\* has settled
NotAwaited(p) == p \in {"idle", "reading"}
Awaited(p) == p = "idle"

\* processRegion up to the creation of the readline interface
KeepChunkIndex(n) == n
ResetChunkIndex(n) == 0
KeepChunk(chunk) == chunk
ResetChunk(chunk) == <<>>
StartRegion ==
    /\ Awaited(phase)
    /\ inputExists[Regions[regionIdx]]
    /\ currentChunk' = ResetChunk(currentChunk)
    /\ chunkIndex' = ResetChunkIndex(chunkIndex)
    /\ featureCount' = 0
    /\ inFeatures' = FALSE
    /\ currentFeature' = <<>>
    /\ braceDepth' = 0
    /\ lineCount' = 0
    /\ input' = <<>>
    /\ swallowed' = 0
    /\ phase' = "reading"
    /\ UNCHANGED <<regionIdx, inputExists, files, totalFeatures, reports, linesRead,
                   failures, counted>>
    /\ UNCHANGED tileVars

\* if (!inFeatures) return;
ScansEveryLine(inside) == FALSE
SkipsLine(inside) == ~inside

\* rl.on('line')
LineEvent(line, toFail, partial) ==
    /\ phase = "reading"
    /\ linesRead < MaxLines
    /\ LET trimmed == Trim(line)
           s0      == Scanner(toFail, partial)
           region  == Regions[regionIdx]
       IN  /\ lineCount' = lineCount + 1
           /\ input' = Append(input, line)
           /\ linesRead' = linesRead + 1
           /\ IF IsFeaturesMarker(trimmed)
              THEN /\ inFeatures' = TRUE
                   /\ UNCHANGED <<phase, currentFeature, braceDepth, currentChunk,
                                  chunkIndex, featureCount, files, failures, swallowed>>
              ELSE IF SkipsLine(inFeatures)
              THEN UNCHANGED <<phase, inFeatures, currentFeature, braceDepth,
                               currentChunk, chunkIndex, featureCount, files,
                               failures, swallowed>>
              ELSE IF IsArrayEnd(trimmed)
              THEN LET s == WriteChunk(s0)
                   IN  /\ inFeatures' = FALSE
                       /\ phase' = IF s.threw THEN "crashed" ELSE phase
                       /\ currentChunk' = s.currentChunk
                       /\ chunkIndex' = s.chunkIndex
                       /\ files' = [files EXCEPT ![region] = s.dir]
                       /\ failures' = failures + s.failed
                       /\ UNCHANGED <<currentFeature, braceDepth, featureCount, swallowed>>
              ELSE LET s == ScanLine(s0, trimmed, 1, lineCount + 1, Indent(line))
                   IN  /\ currentFeature' = s.currentFeature
                       /\ braceDepth' = s.braceDepth
                       /\ currentChunk' = s.currentChunk
                       /\ chunkIndex' = s.chunkIndex
                       /\ featureCount' = s.featureCount
                       /\ files' = [files EXCEPT ![region] = s.dir]
                       /\ failures' = failures + s.failed
                       /\ swallowed' = s.swallowed
                       /\ UNCHANGED <<phase, inFeatures>>
    /\ UNCHANGED <<regionIdx, inputExists, totalFeatures, reports, counted>>
    /\ UNCHANGED tileVars

\* rl.on('close'): report, resolve(this.featureCount); processAllRegions resumes
Close ==
    /\ phase = "reading"
    /\ reports' = Append(reports, [code         |-> Regions[regionIdx],
                                   featureCount |-> featureCount,
                                   chunkCount   |-> chunkIndex])
    /\ totalFeatures' = totalFeatures + featureCount
    /\ phase' = AfterRegion
    /\ regionIdx' = regionIdx + 1
    /\ UNCHANGED <<inputExists, inFeatures, currentFeature, braceDepth, lineCount,
                   currentChunk, chunkIndex, featureCount, files, input, linesRead,
                   failures, swallowed, counted>>
    /\ UNCHANGED tileVars

\* rl.on('error'): reject(error); processAllRegions rejects
StreamError ==
    /\ phase = "reading"
    /\ phase' = "rejected"
    /\ UNCHANGED <<regionIdx, inputExists, inFeatures, currentFeature, braceDepth,
                   lineCount, currentChunk, chunkIndex, featureCount, files,
                   totalFeatures, reports, input, linesRead, failures, swallowed,
                   counted>>
    /\ UNCHANGED tileVars

Next ==
    \/ SkipMissingRegion
    \/ StartRegion
    \/ \E line \in Lines, toFail \in 0..(MaxWriteFailures - failures), partial \in BOOLEAN :
           LineEvent(line, toFail, partial)
    \/ Close
    \/ StreamError

Spec == Init /\ [][Next]_vars

---------------------------------------------------------------------------
(* FeatureProcessor and its processRegion / processAllRegions
   (tile-generator.js, third script) *)

NaN == 0 - 999999999

\* totalFeatures += count, where count may be undefined
AddCount(total, count) == IF total = NaN \/ count = NaN THEN NaN ELSE total + count

\* addFeature: no geometry test; id generated from the running count
AddFeature(s, feature) ==
    LET optimized == [type     |-> "Feature",
                      geometry |-> feature.geometry,
                      id       |-> <<s.region, s.featureCount>>,
                      at       |-> feature.at]
        s2 == [s EXCEPT !.currentChunk = PushFeature(@, optimized),
                        !.featureCount = @ + 1]
    IN  IF Len(s2.currentChunk) >= FeaturesPerChunk THEN WriteChunk(s2) ELSE s2

\* the try block run when braceDepth returns to 0
FPFeatureClosed(s, at) ==
    LET parsed  == JsonParse(CleanFeature(s.currentFeature))
        feature == [type |-> parsed.type, geometry |-> parsed.geometry, at |-> at]
    IN  IF ~parsed.ok THEN s
        ELSE IF feature.type = "Feature" THEN Catch(AddFeature(s, feature))
        ELSE s

\* one iteration of the character loop
FPScanChar(s, char, at) ==
    IF char = "{" /\ s.braceDepth = 0
    THEN [s EXCEPT !.currentFeature = <<"{">>, !.braceDepth = 1]
    ELSE IF char = "{" /\ s.braceDepth > 0
    THEN [s EXCEPT !.currentFeature = Append(@, char), !.braceDepth = @ + 1]
    ELSE IF char = "}" /\ s.braceDepth > 0
    THEN LET s1 == [s EXCEPT !.currentFeature = Append(@, char), !.braceDepth = @ - 1]
         IN  IF s1.braceDepth = 0
             THEN [FPFeatureClosed(s1, at) EXCEPT !.currentFeature = <<>>]
             ELSE s1
    ELSE IF s.braceDepth > 0
    THEN [s EXCEPT !.currentFeature = Append(@, char)]
    ELSE s

RECURSIVE FPScanLine(_, _, _, _, _)
FPScanLine(s, trimmed, i, lineNo, indent) ==
    IF i > Len(trimmed) THEN s
    ELSE FPScanLine(FPScanChar(s, trimmed[i], <<lineNo, indent + i>>),
                    trimmed, i + 1, lineNo, indent)

\* processRegion, input file missing: return (undefined)
FPSkipMissingRegion ==
    /\ phase = "idle"
    /\ ~inputExists[Regions[regionIdx]]
    /\ totalFeatures' = AddCount(totalFeatures, NaN)
    /\ phase' = AfterRegion
    /\ regionIdx' = regionIdx + 1
    /\ UNCHANGED <<inputExists, inFeatures, currentFeature, braceDepth, lineCount,
                   currentChunk, chunkIndex, featureCount, files, reports, input,
                   linesRead, failures, swallowed, counted>>
    /\ UNCHANGED tileVars

\* processRegion up to the for-await loop: new FeatureProcessor(regionCode, ...)
FPStartRegion ==
    /\ phase = "idle"
    /\ inputExists[Regions[regionIdx]]
    /\ currentChunk' = <<>>
    /\ chunkIndex' = 0
    /\ featureCount' = 0
    /\ inFeatures' = FALSE
    /\ currentFeature' = <<>>
    /\ braceDepth' = 0
    /\ lineCount' = 0
    /\ input' = <<>>
    /\ swallowed' = 0
    /\ phase' = "reading"
    /\ UNCHANGED <<regionIdx, inputExists, files, totalFeatures, reports, linesRead,
                   failures, counted>>
    /\ UNCHANGED tileVars

\* one iteration of for await (const line of rl)
FPLine(line, toFail, partial) ==
    /\ phase = "reading"
    /\ linesRead < MaxLines
    /\ LET trimmed == Trim(line)
           region  == Regions[regionIdx]
       IN  /\ lineCount' = lineCount + 1
           /\ input' = Append(input, line)
           /\ linesRead' = linesRead + 1
           /\ IF IsFeaturesMarker(trimmed)
              THEN /\ inFeatures' = TRUE
                   /\ UNCHANGED <<currentFeature, braceDepth, currentChunk, chunkIndex,
                                  featureCount, files, failures, swallowed>>
              ELSE IF ~inFeatures
              THEN UNCHANGED <<inFeatures, currentFeature, braceDepth, currentChunk,
                               chunkIndex, featureCount, files, failures, swallowed>>
              ELSE IF IsArrayEnd(trimmed)
              THEN /\ inFeatures' = FALSE
                   /\ UNCHANGED <<currentFeature, braceDepth, currentChunk, chunkIndex,
                                  featureCount, files, failures, swallowed>>
              ELSE LET s == FPScanLine(Scanner(toFail, partial), trimmed, 1,
                                       lineCount + 1, Indent(line))
                   IN  /\ currentFeature' = s.currentFeature
                       /\ braceDepth' = s.braceDepth
                       /\ currentChunk' = s.currentChunk
                       /\ chunkIndex' = s.chunkIndex
                       /\ featureCount' = s.featureCount
                       /\ files' = [files EXCEPT ![region] = s.dir]
                       /\ failures' = failures + s.failed
                       /\ swallowed' = s.swallowed
                       /\ UNCHANGED inFeatures
    /\ UNCHANGED <<regionIdx, phase, inputExists, totalFeatures, reports, counted>>
    /\ UNCHANGED tileVars

\* the loop ends: processor.finish(); return processor.featureCount
FPFinish(toFail, partial) ==
    /\ phase = "reading"
    /\ LET s0 == Scanner(toFail, partial)
           s  == IF Len(s0.currentChunk) > 0 THEN WriteChunk(s0) ELSE s0
       IN  /\ currentChunk' = s.currentChunk
           /\ chunkIndex' = s.chunkIndex
           /\ files' = [files EXCEPT ![Regions[regionIdx]] = s.dir]
           /\ failures' = failures + s.failed
           /\ IF s.threw
              THEN /\ phase' = "rejected"
                   /\ UNCHANGED <<regionIdx, totalFeatures, reports>>
              ELSE /\ phase' = AfterRegion
                   /\ regionIdx' = regionIdx + 1
                   /\ totalFeatures' = AddCount(totalFeatures, featureCount)
                   /\ reports' = Append(reports, [code         |-> Regions[regionIdx],
                                                  featureCount |-> featureCount,
                                                  chunkCount   |-> s.chunkIndex])
    /\ UNCHANGED <<inputExists, inFeatures, currentFeature, braceDepth, lineCount,
                   featureCount, input, linesRead, swallowed, counted>>
    /\ UNCHANGED tileVars

\* the stream fails: the for-await loop throws and processRegion rejects
FPStreamError ==
    /\ phase = "reading"
    /\ phase' = "rejected"
    /\ UNCHANGED <<regionIdx, inputExists, inFeatures, currentFeature, braceDepth,
                   lineCount, currentChunk, chunkIndex, featureCount, files,
                   totalFeatures, reports, input, linesRead, failures, swallowed,
                   counted>>
    /\ UNCHANGED tileVars

NextFeatureProcessor ==
    \/ FPSkipMissingRegion
    \/ FPStartRegion
    \/ \E line \in Lines, toFail \in 0..(MaxWriteFailures - failures), partial \in BOOLEAN :
           FPLine(line, toFail, partial)
    \/ \E toFail \in 0..(MaxWriteFailures - failures), partial \in BOOLEAN :
           FPFinish(toFail, partial)
    \/ FPStreamError

SpecFeatureProcessor == Init /\ [][NextFeatureProcessor]_vars

---------------------------------------------------------------------------
(* FileInspector.inspectRegion (file-inspector.js) *)

LBig    == <<"{", "t", "o", "o", "o", "o", "o", "o", "g", "{", "}", "}">>
LBraces == <<"{", "{", "{", "{">>

InspectorLines == {LMarker, LFeat, LBig, LBraces, LBad, LNoType, LEnd}

\* the try block run when braceDepth returns to 0: processFeatureChunk catches
\* its own parse errors, so featureCount++ always follows
InspectFeatureClosed(s, at) ==
    [s EXCEPT !.featureCount = @ + 1, !.counted = Append(@, at)]

\* the size guard on an ordinary character
GuardedAppend(s, char) ==
    IF Len(s.currentFeature) < Ceiling
    THEN [s EXCEPT !.currentFeature = Append(@, char)]
    ELSE [s EXCEPT !.currentFeature = <<>>, !.braceDepth = 0]

\* one iteration of the character loop
InspectChar(s, char, at) ==
    IF char = "{" /\ s.braceDepth = 0
    THEN [s EXCEPT !.currentFeature = <<"{">>, !.braceDepth = 1]
    ELSE IF char = "{" /\ s.braceDepth > 0
    THEN [s EXCEPT !.currentFeature = Append(@, char), !.braceDepth = @ + 1]
    ELSE IF char = "}" /\ s.braceDepth > 0
    THEN LET s1 == [s EXCEPT !.currentFeature = Append(@, char), !.braceDepth = @ - 1]
         IN  IF s1.braceDepth = 0
             THEN [InspectFeatureClosed(s1, at) EXCEPT !.currentFeature = <<>>]
             ELSE s1
    ELSE IF s.braceDepth > 0
    THEN GuardedAppend(s, char)
    ELSE s

\* for (let i = 0; i < line.length; i++), over the untrimmed line
RECURSIVE InspectScan(_, _, _, _)
InspectScan(s, line, i, lineNo) ==
    IF i > Len(line) THEN s
    ELSE InspectScan(InspectChar(s, line[i], <<lineNo, i>>), line, i + 1, lineNo)

InitInspector ==
    /\ regionIdx = 1
    /\ phase = "inspecting"
    /\ inputExists = [r \in RegionSet |-> TRUE]
    /\ inFeatures = FALSE
    /\ currentFeature = <<>>
    /\ braceDepth = 0
    /\ lineCount = 0
    /\ currentChunk = <<>>
    /\ chunkIndex = 0
    /\ featureCount = 0
    /\ files = [r \in RegionSet |-> NoFile]
    /\ totalFeatures = 0
    /\ reports = <<>>
    /\ input = <<>>
    /\ linesRead = 0
    /\ failures = 0
    /\ swallowed = 0
    /\ counted = <<>>
    /\ writer = ""
    /\ tileIndex = <<>>
    /\ result = <<>>
    /\ removed = {}

\* rl.on('line')
InspectLine(line) ==
    /\ phase = "inspecting"
    /\ linesRead < MaxLines
    /\ lineCount' = lineCount + 1
    /\ input' = Append(input, line)
    /\ linesRead' = linesRead + 1
    /\ IF Includes(line, "M") /\ Includes(line, "[")
       THEN /\ inFeatures' = TRUE
            /\ UNCHANGED <<currentFeature, braceDepth, featureCount, counted>>
       ELSE IF ~inFeatures
       THEN UNCHANGED <<inFeatures, currentFeature, braceDepth, featureCount, counted>>
       ELSE IF IsArrayEnd(Trim(line))
       THEN /\ inFeatures' = FALSE
            /\ UNCHANGED <<currentFeature, braceDepth, featureCount, counted>>
       ELSE LET s == InspectScan([currentFeature |-> currentFeature,
                                  braceDepth     |-> braceDepth,
                                  featureCount   |-> featureCount,
                                  counted        |-> counted],
                                 line, 1, lineCount + 1)
            IN  /\ currentFeature' = s.currentFeature
                /\ braceDepth' = s.braceDepth
                /\ featureCount' = s.featureCount
                /\ counted' = s.counted
                /\ UNCHANGED inFeatures
    /\ UNCHANGED <<regionIdx, phase, inputExists, currentChunk, chunkIndex, files,
                   totalFeatures, reports, failures, swallowed>>
    /\ UNCHANGED tileVars

\* rl.on('close'): this.stats.set, addRegionData, resolve(result)
InspectClose ==
    /\ phase = "inspecting"
    /\ reports' = Append(reports, [code         |-> Regions[regionIdx],
                                   featureCount |-> featureCount,
                                   chunkCount   |-> 0])
    /\ phase' = "inspected"
    /\ UNCHANGED <<regionIdx, inputExists, inFeatures, currentFeature, braceDepth,
                   lineCount, currentChunk, chunkIndex, featureCount, files,
                   totalFeatures, input, linesRead, failures, swallowed, counted>>
    /\ UNCHANGED tileVars

\* rl.on('error'): reject(error)
InspectError ==
    /\ phase = "inspecting"
    /\ phase' = "rejected"
    /\ UNCHANGED <<regionIdx, inputExists, inFeatures, currentFeature, braceDepth,
                   lineCount, currentChunk, chunkIndex, featureCount, files,
                   totalFeatures, reports, input, linesRead, failures, swallowed,
                   counted>>
    /\ UNCHANGED tileVars

NextInspector ==
    \/ \E line \in InspectorLines : InspectLine(line)
    \/ InspectClose
    \/ InspectError

SpecInspector == InitInspector /\ [][NextInspector]_vars

---------------------------------------------------------------------------
(* JavaScript values of a coordinate tree.  A number is an integer count of
   millionths of a degree; NaN and the two infinities are reserved values.
   Every value is a record of one shape: t is "num", "arr", "null" or
   "undefined". *)

Infinity == 999999999
NegInfinity == 0 - Infinity

Undefined == [t |-> "undefined", n |-> 0, a |-> <<>>]
JsNull == [t |-> "null", n |-> 0, a |-> <<>>]
Num(x) == [t |-> "num", n |-> x, a |-> <<>>]
Arr(s) == [t |-> "arr", n |-> 0, a |-> s]

\* Array.isArray(v)
IsArray(v) == v.t = "arr"

\* v[i] for the i-th element (first is 1) of a value that is not undefined
Elem(v, i) == IF v.t = "arr" /\ i <= Len(v.a) THEN v.a[i] ELSE Undefined

\* the number a value converts to in arithmetic
ToNumber(v) == IF v.t = "num" THEN v.n ELSE IF v.t = "null" THEN 0 ELSE NaN

IsFinite(x) == x # NaN /\ x # Infinity /\ x # NegInfinity

\* a > b and a < b on numbers: false as soon as one side is NaN
Gt(a, b) == a # NaN /\ b # NaN /\ a > b
Lt(a, b) == a # NaN /\ b # NaN /\ a < b

\* Math.min(...xs), Math.max(...xs)
MathMin(xs) ==
    IF xs = <<>> THEN Infinity
    ELSE IF \E i \in 1..Len(xs) : xs[i] = NaN THEN NaN
    ELSE CHOOSE m \in {xs[i] : i \in 1..Len(xs)} : \A i \in 1..Len(xs) : m <= xs[i]

MathMax(xs) ==
    IF xs = <<>> THEN NegInfinity
    ELSE IF \E i \in 1..Len(xs) : xs[i] = NaN THEN NaN
    ELSE CHOOSE m \in {xs[i] : i \in 1..Len(xs)} : \A i \in 1..Len(xs) : m >= xs[i]

\* Math.round(x * 100000) / 100000: to the nearest 10 millionths, a half
\* going up
Round5Next(x) == IF x = NaN THEN NaN ELSE ((x + 10) \div 10) * 10
Round5(x) == IF x = NaN THEN NaN ELSE ((x + 5) \div 10) * 10

\* a geometry object, or the absence of one
NoGeometry == [t |-> "undefined", type |-> "", coordinates |-> Undefined]
Geometry(type, coordinates) == [t |-> "object", type |-> type, coordinates |-> coordinates]

\* JSON.parse(JSON.stringify(v)) of a coordinate tree: NaN, the infinities
\* and an undefined array element come back as null
RECURSIVE JsonValue(_)
JsonValue(v) ==
    IF v.t = "arr" THEN Arr([i \in 1..Len(v.a) |-> JsonValue(v.a[i])])
    ELSE IF v.t = "num" /\ IsFinite(v.n) THEN v
    ELSE JsNull

\* the same for a geometry: an undefined member is left out
JsonGeometry(geometry) ==
    IF geometry.t = "undefined" \/ geometry.coordinates.t = "undefined" THEN geometry
    ELSE [geometry EXCEPT !.coordinates = JsonValue(@)]

---------------------------------------------------------------------------
(* TileGenerator (tile-generator.js, first script): the pure part *)

\* extract(coords) of extractCoordinates
RECURSIVE Extract(_)
FlatMapExtract(s) ==
    LET RECURSIVE Go(_)
        Go(i) == IF i > Len(s) THEN <<>> ELSE Extract(s[i]) \o Go(i + 1)
    IN  Go(1)
Extract(coords) ==
    IF IsArray(Elem(coords, 1)) /\ IsArray(Elem(Elem(coords, 1), 1))
    THEN FlatMapExtract(coords.a)
    ELSE IF IsArray(Elem(coords, 1))
    THEN coords.a
    ELSE <<coords>>

\* extractCoordinates(geometry)
ExtractCoordinates(geometry) ==
    IF geometry.t = "undefined" \/ geometry.coordinates.t = "undefined" THEN <<>>
    ELSE Extract(geometry.coordinates)

\* calculateBounds(geometry)
CalculateBounds(geometry) ==
    LET coords == ExtractCoordinates(geometry)
        lats   == [i \in 1..Len(coords) |-> ToNumber(Elem(coords[i], 2))]
        lngs   == [i \in 1..Len(coords) |-> ToNumber(Elem(coords[i], 1))]
    IN  [minLng |-> MathMin(lngs),
         minLat |-> MathMin(lats),
         maxLng |-> MathMax(lngs),
         maxLat |-> MathMax(lats)]

\* boundsIntersect(b1, b2)
BoundsIntersectSkewed(b1, b2) ==
    ~(\/ ~Lt(b2.minLng, b1.maxLng)
      \/ Lt(b2.maxLng, b1.minLng)
      \/ Gt(b2.minLat, b1.maxLat)
      \/ Lt(b2.maxLat, b1.minLat))
BoundsIntersectStrict(b1, b2) ==
    ~(\/ ~Lt(b2.minLng, b1.maxLng)
      \/ ~Gt(b2.maxLng, b1.minLng)
      \/ ~Lt(b2.minLat, b1.maxLat)
      \/ ~Gt(b2.maxLat, b1.minLat))
BoundsIntersect(b1, b2) ==
    ~(\/ Gt(b2.minLng, b1.maxLng)
      \/ Lt(b2.maxLng, b1.minLng)
      \/ Gt(b2.minLat, b1.maxLat)
      \/ Lt(b2.maxLat, b1.minLat))

\* simplifyGeometryForZoom(geometry, factor)
SimplifyGeometryForZoom(geometry, factor) == geometry

\* simplifyFeaturesForZoom(features, zoom)
SimplifyFeaturesForZoom(features, zoom) ==
    [i \in 1..Len(features) |->
        [features[i] EXCEPT !.geometry = SimplifyGeometryForZoom(@, zoom)]]

---------------------------------------------------------------------------
(* The coordinate optimizers *)

\* [Math.round(coord[0] * 100000) / 100000, Math.round(coord[1] * 100000) / 100000]
RoundPosition(coord) ==
    Arr(<<Num(Round5(ToNumber(Elem(coord, 1)))), Num(Round5(ToNumber(Elem(coord, 2))))>>)

\* simplifyCoords of MemorySafeProcessor.optimizeFeature (preprocessor.js)
RECURSIVE SimplifyCoords(_)
SimplifyCoords(coords) ==
    IF IsArray(Elem(coords, 1)) /\ IsArray(Elem(Elem(coords, 1), 1))
    THEN Arr([i \in 1..Len(coords.a) |-> SimplifyCoords(coords.a[i])])
    ELSE IF IsArray(Elem(coords, 1))
    THEN Arr([i \in 1..Len(coords.a) |-> RoundPosition(coords.a[i])])
    ELSE coords

\* simplifyCoordinates of GeoJSONProcessor.simplifyGeometry (tile-generator.js)
RECURSIVE SimplifyCoordinates(_)
SimplifyCoordinates(coords) ==
    Arr([i \in 1..Len(coords.a) |->
            IF IsArray(Elem(coords.a[i], 1))
            THEN SimplifyCoordinates(coords.a[i])
            ELSE RoundPosition(coords.a[i])])

\* GeoJSONProcessor.simplifyGeometry(geometry)
SimplifyGeometry(geometry) ==
    IF geometry.t = "undefined" \/ geometry.coordinates.t = "undefined" THEN geometry
    ELSE Geometry(geometry.type, SimplifyCoordinates(geometry.coordinates))

Writers == {"MemorySafeProcessor", "GeoJSONProcessor", "FeatureProcessor"}

\* the geometry a writer stores for a feature (the feature is stored at all
\* only when StoresFeature holds)
StoredGeometry(w, geometry) ==
    IF w = "MemorySafeProcessor"
    THEN Geometry(geometry.type, SimplifyCoords(geometry.coordinates))
    ELSE IF w = "GeoJSONProcessor" THEN SimplifyGeometry(geometry)
    ELSE geometry

\* MemorySafeProcessor: feature.geometry is tested, and simplifyCoords of a
\* geometry without coordinates throws into the handler's catch
StoresFeature(w, feature) ==
    w = "MemorySafeProcessor" =>
        feature.geometry.t # "undefined" /\ feature.geometry.coordinates.t # "undefined"

---------------------------------------------------------------------------
(* Chunk file names *)

\* path.join(a, b)
PathJoin(a, b) == a \o "/" \o b

\* config.output.chunks of each script
ChunksDir(w) == IF w = "MemorySafeProcessor" THEN "data/chunks" ELSE "data/processed/chunks"

\* the path a writer gives chunk n of a region
WriterPath(w, region, n) ==
    IF w = "MemorySafeProcessor"
    THEN PathJoin(PathJoin(ChunksDir(w), region), "chunk_" \o ToString(n) \o ".json")
    ELSE PathJoin(ChunksDir(w), region \o "_chunk_" \o ToString(n) \o ".json")

\* the path loadRegionChunks looks for
LoadPath(region, n) ==
    PathJoin("data/processed/chunks", region \o "_chunk_" \o ToString(n) \o ".json")

---------------------------------------------------------------------------
(* Chunk writers at the level of parsed features, and TileGenerator
   (tile-generator.js, first script) reading what they wrote *)

MaxFeatures == 3

Pos(x, y) == Arr(<<Num(x), Num(y)>>)

GPoint   == Geometry("Point", Pos(14, 0 - 26))
GLine    == Geometry("LineString", Arr(<<Pos(0, 0), Pos(15, 0 - 15)>>))
GPolygon == Geometry("Polygon", Arr(<<Arr(<<Pos(0, 0), Pos(24, 0), Pos(24, 36), Pos(0, 0)>>)>>))
GMulti   == Geometry("MultiPolygon",
                     Arr(<<Arr(<<Arr(<<Pos(100, 100), Pos(120, 100), Pos(100, 100)>>)>>),
                           Arr(<<Arr(<<Pos(200, 200), Pos(231, 265), Pos(200, 200)>>)>>)>>))
GEmpty   == Geometry("Polygon", Arr(<<>>))
GCollection == Geometry("GeometryCollection", Undefined)

MaxRemoved == 1

Raw(g) == [geometry |-> g]

\* the parsed features of an input file
BaseFiles ==
    <<<<Raw(GPoint), Raw(GLine), Raw(GPolygon), Raw(GMulti)>>,
      <<Raw(GMulti), Raw(GEmpty), Raw(NoGeometry), Raw(GLine)>>,
      <<Raw(GCollection), Raw(GLine), Raw(GPoint), Raw(GPolygon)>>>>

\* an input file is named by a base file and the number of its features read
InputFiles == {<<1, 0>>} \cup {<<f, k>> : f \in 1..Len(BaseFiles), k \in 1..MaxFeatures}

FileFeatures(name) == SubSeq(BaseFiles[name[1]], 1, name[2])

\* the features of a region's input file
InputOf(region) == FileFeatures(input[region])

Box(w, s, e, n) == [minLng |-> w, minLat |-> s, maxLng |-> e, maxLat |-> n]

\* the tile bounds queried
QueryBounds == {Box(20, 0 - 12, 40, 40), Box(21, 1, 40, 40)}

Zooms == {0, 14}

InitTiles ==
    /\ regionIdx = 1
    /\ phase = "processing"
    /\ inputExists = [r \in RegionSet |-> TRUE]
    /\ inFeatures = FALSE
    /\ currentFeature = <<>>
    /\ braceDepth = 0
    /\ lineCount = 0
    /\ currentChunk = <<>>
    /\ chunkIndex = 0
    /\ featureCount = 0
    /\ files = [r \in RegionSet |-> NoFile]
    /\ totalFeatures = 0
    /\ reports = <<>>
    /\ input \in [RegionSet -> InputFiles]
    /\ linesRead = 0
    /\ failures = 0
    /\ swallowed = 0
    /\ counted = <<>>
    /\ writer \in Writers
    /\ tileIndex = <<>>
    /\ result = <<>>
    /\ removed = {}

\* feature.id || `${this.region}_${this.featureCount}`; MemorySafeProcessor
\* stores no id
StoredId(w, region, count) ==
    IF w = "GeoJSONProcessor" THEN region \o "_" \o ToString(count + 1)
    ELSE IF w = "FeatureProcessor" THEN region \o "_" \o ToString(count)
    ELSE ""

\* one parsed feature handed to the writer: processFeature / addFeature /
\* the body of the try block of preprocessor.js.  `at` is where the feature
\* stands in the input file.
ProcessFeature ==
    /\ phase = "processing"
    /\ lineCount < Len(InputOf(Regions[regionIdx]))
    /\ lineCount' = lineCount + 1
    /\ linesRead' = linesRead + 1
    /\ IF ~StoresFeature(writer, InputOf(Regions[regionIdx])[lineCount + 1])
       THEN UNCHANGED <<currentChunk, chunkIndex, featureCount, files>>
       ELSE LET region    == Regions[regionIdx]
                feature   == InputOf(region)[lineCount + 1]
                optimized == [type     |-> "Feature",
                              geometry |-> StoredGeometry(writer, feature.geometry),
                              id       |-> StoredId(writer, region, featureCount),
                              at       |-> <<region, lineCount + 1>>]
                s         == [currentChunk |-> PushFeature(currentChunk, optimized),
                              chunkIndex   |-> chunkIndex,
                              region       |-> region]
            IN  /\ featureCount' = featureCount + 1
                /\ IF Len(s.currentChunk) >= FeaturesPerChunk
                   THEN /\ files' = [files EXCEPT ![region] = PutFile(@, chunkIndex, ChunkData(s))]
                        /\ currentChunk' = <<>>
                        /\ chunkIndex' = NextChunkIndex(chunkIndex)
                   ELSE /\ currentChunk' = s.currentChunk
                        /\ UNCHANGED <<chunkIndex, files>>
    /\ UNCHANGED <<regionIdx, phase, inputExists, inFeatures, currentFeature, braceDepth,
                   totalFeatures, reports, input, failures, swallowed, counted,
                   tileVars>>

\* the end of a region's input: finish(), or the line closing the array
FinishRegion ==
    /\ phase = "processing"
    /\ lineCount = Len(InputOf(Regions[regionIdx]))
    /\ lineCount' = 0
    /\ LET region == Regions[regionIdx]
           s      == [currentChunk |-> currentChunk, chunkIndex |-> chunkIndex,
                      region |-> region]
       IN  files' = IF Len(currentChunk) > 0
                    THEN [files EXCEPT ![region] = PutFile(@, chunkIndex, ChunkData(s))]
                    ELSE files
    /\ currentChunk' = <<>>
    /\ chunkIndex' = 0
    /\ featureCount' = 0
    /\ IF regionIdx < Len(Regions)
       THEN regionIdx' = regionIdx + 1 /\ UNCHANGED phase
       ELSE phase' = "serving" /\ UNCHANGED regionIdx
    /\ UNCHANGED <<inputExists, inFeatures, currentFeature, braceDepth,
                   totalFeatures, reports, input, linesRead, failures, swallowed,
                   counted, tileVars>>

\* fs.existsSync(filepath) and the parsed content of the file at filepath
FileAt(path) ==
    {rn \in UNION {{<<r, n>> : n \in DOMAIN files[r]} : r \in RegionSet} :
        WriterPath(writer, rn[1], rn[2]) = path}

ExistsSync(path) == FileAt(path) # {}

\* JSON.parse(fs.readFileSync(filepath, 'utf8')) of what JSON.stringify wrote
ReadChunk(path) ==
    LET rn == CHOOSE x \in FileAt(path) : TRUE
    IN  [files[rn[1]][rn[2]] EXCEPT
            !.features = [i \in 1..Len(@) |-> [@[i] EXCEPT !.geometry = JsonGeometry(@)]]]

\* loadRegionChunks(region)
RECURSIVE LoadFrom(_, _)
LoadFrom(region, chunkIdx) ==
    IF ~ExistsSync(LoadPath(region, chunkIdx)) THEN <<>>
    ELSE <<ReadChunk(LoadPath(region, chunkIdx))>> \o LoadFrom(region, chunkIdx + 1)

LoadRegionChunks(region) == LoadFrom(region, 0)

\* the entries createSpatialIndex pushes for one chunk
ChunkEntriesSwapped(region, chunk, chunkIdx) ==
    [i \in 1..Len(chunk.features) |->
        [region  |-> region,
         chunk   |-> chunkIdx,
         feature |-> i - 1,
         bounds  |-> CalculateBounds(chunk.features[Len(chunk.features) + 1 - i].geometry)]]
ChunkEntries(region, chunk, chunkIdx) ==
    [i \in 1..Len(chunk.features) |->
        [region  |-> region,
         chunk   |-> chunkIdx,
         feature |-> i - 1,
         bounds  |-> CalculateBounds(chunk.features[i].geometry)]]

RECURSIVE IndexFrom(_, _, _)
IndexFrom(region, chunks, c) ==
    IF c > Len(chunks) THEN <<>>
    ELSE ChunkEntries(region, chunks[c], c - 1) \o IndexFrom(region, chunks, c + 1)

\* the index createSpatialIndex(region) builds
SpatialIndex(region) == IndexFrom(region, LoadRegionChunks(region), 1)

SetIndex(region, index) ==
    [r \in DOMAIN tileIndex \cup {region} |-> IF r = region THEN index ELSE tileIndex[r]]

\* createSpatialIndex(region)
CreateSpatialIndex(region) ==
    /\ phase = "serving"
    /\ tileIndex' = SetIndex(region, SpatialIndex(region))
    /\ UNCHANGED <<regionIdx, phase, inputExists, inFeatures, currentFeature, braceDepth,
                   lineCount, currentChunk, chunkIndex, featureCount, files,
                   totalFeatures, reports, input, linesRead, failures, swallowed,
                   counted, writer, result, removed>>

RECURSIVE SelectSeq2(_, _)
SelectSeq2(index, bounds) ==
    IF index = <<>> THEN <<>>
    ELSE (IF BoundsIntersect(Head(index).bounds, bounds) THEN <<Head(index)>> ELSE <<>>)
         \o SelectSeq2(Tail(index), bounds)

\* getFeaturesForTile(region, bounds, zoom).  An index entry whose chunk or
\* feature is no longer there makes chunk.features or feature.geometry throw
\* a TypeError, which nothing in the class catches.
GetFeaturesForTile(region, bounds, zoom) ==
    /\ phase = "serving"
    /\ LET cached == region \in DOMAIN tileIndex
           index  == IF cached THEN tileIndex[region] ELSE SpatialIndex(region)
           items  == SelectSeq2(index, bounds)
           chunks == LoadRegionChunks(region)
           found(item) == /\ item.chunk + 1 <= Len(chunks)
                          /\ item.feature + 1 <= Len(chunks[item.chunk + 1].features)
           threw  == \E i \in 1..Len(items) : ~found(items[i])
       IN  /\ tileIndex' = SetIndex(region, index)
           /\ result' = [region   |-> region,
                         bounds   |-> bounds,
                         cached   |-> cached,
                         indexChanged |-> cached /\ SetIndex(region, index) # tileIndex,
                         threw    |-> IF threw THEN "TypeError" ELSE "",
                         features |-> IF threw THEN <<>>
                                      ELSE SimplifyFeaturesForZoom(
                                               [i \in 1..Len(items) |->
                                                   chunks[items[i].chunk + 1]
                                                       .features[items[i].feature + 1]],
                                               zoom)]
    /\ UNCHANGED <<regionIdx, phase, inputExists, inFeatures, currentFeature, braceDepth,
                   lineCount, currentChunk, chunkIndex, featureCount, files,
                   totalFeatures, reports, input, linesRead, failures, swallowed,
                   counted, writer, removed>>

\* the chunk directory changes under the generator: a chunk file is removed
RemoveChunk(region, n) ==
    /\ phase = "serving"
    /\ n \in DOMAIN files[region]
    /\ Cardinality(removed) < MaxRemoved
    /\ removed' = removed \cup {[region  |-> region,
                                  chunk   |-> n,
                                  indexed |-> region \in DOMAIN tileIndex]}
    /\ files' = [files EXCEPT ![region] = [i \in DOMAIN @ \ {n} |-> @[i]]]
    /\ UNCHANGED <<regionIdx, phase, inputExists, inFeatures, currentFeature, braceDepth,
                   lineCount, currentChunk, chunkIndex, featureCount, totalFeatures,
                   reports, input, linesRead, failures, swallowed, counted, writer,
                   tileIndex, result>>

NextTiles ==
    \/ ProcessFeature
    \/ FinishRegion
    \/ \E region \in RegionSet : CreateSpatialIndex(region)
    \/ \E region \in RegionSet, bounds \in QueryBounds, zoom \in Zooms :
           GetFeaturesForTile(region, bounds, zoom)
    \/ \E region \in RegionSet, n \in 0..MaxFeatures : RemoveChunk(region, n)

SpecTiles == InitTiles /\ [][NextTiles]_vars

---------------------------------------------------------------------------
(* The pipeline run again for a region while a TileGenerator is serving: a
   writer process rewrites the region's chunk files from another input file.
   Nothing in a writer removes a file, so the run overwrites the chunks it
   writes and leaves the others. *)

MaxReruns == 1

\* the input files a region is run again on
RerunInputs == {<<2, 1>>, <<3, 3>>}

\* a whole run of a writer over the features of an input file, into the
\* chunk directory dir: processFeature / addFeature for each feature, then
\* finish()
RECURSIVE RunFrom(_, _, _, _, _)
RunFrom(w, region, features, i, s) ==
    IF i > Len(features)
    THEN IF Len(s.currentChunk) > 0
         THEN PutFile(s.dir, s.chunkIndex, ChunkData(s))
         ELSE s.dir
    ELSE IF ~StoresFeature(w, features[i]) THEN RunFrom(w, region, features, i + 1, s)
    ELSE LET optimized == [type     |-> "Feature",
                           geometry |-> StoredGeometry(w, features[i].geometry),
                           id       |-> StoredId(w, region, s.featureCount),
                           at       |-> <<region, i>>]
             s2 == [s EXCEPT !.currentChunk = PushFeature(@, optimized),
                             !.featureCount = @ + 1]
         IN  IF Len(s2.currentChunk) >= FeaturesPerChunk
             THEN RunFrom(w, region, features, i + 1,
                          [s2 EXCEPT !.dir          = PutFile(@, s2.chunkIndex, ChunkData(s2)),
                                     !.currentChunk = <<>>,
                                     !.chunkIndex   = NextChunkIndex(@)])
             ELSE RunFrom(w, region, features, i + 1, s2)

RunWriter(w, region, features, dir) ==
    RunFrom(w, region, features, 1,
            [currentChunk |-> <<>>, chunkIndex |-> 0, featureCount |-> 0,
             region |-> region, dir |-> dir])

\* the region is processed again, from the input file named
RerunRegion(region, name) ==
    /\ phase = "serving"
    /\ Cardinality(removed) < MaxReruns
    /\ input' = [input EXCEPT ![region] = name]
    /\ files' = [files EXCEPT ![region] = RunWriter(writer, region, FileFeatures(name), @)]
    /\ removed' = removed \cup {[region  |-> region,
                                  chunk   |-> 0 - 1,
                                  indexed |-> region \in DOMAIN tileIndex]}
    /\ UNCHANGED <<regionIdx, phase, inputExists, inFeatures, currentFeature, braceDepth,
                   lineCount, currentChunk, chunkIndex, featureCount, totalFeatures,
                   reports, linesRead, failures, swallowed, counted, writer,
                   tileIndex, result>>

NextRerun ==
    \/ ProcessFeature
    \/ FinishRegion
    \/ \E region \in RegionSet : CreateSpatialIndex(region)
    \/ \E region \in RegionSet, bounds \in QueryBounds, zoom \in Zooms :
           GetFeaturesForTile(region, bounds, zoom)
    \/ \E region \in RegionSet, name \in RerunInputs : RerunRegion(region, name)

SpecRerun == InitTiles /\ [][NextRerun]_vars

---------------------------------------------------------------------------
(* boundsIntersect on its own: pairs of boxes drawn from a grid, and the
   boxes {0,0,10,10}, {10,10,20,20}, {10.01,10.01,20,20} in millionths of a
   degree *)

MaxCoord == 2

Degrees(d) == d * 1000000

BoxA    == Box(0, 0, Degrees(10), Degrees(10))
BoxB    == Box(Degrees(10), Degrees(10), Degrees(20), Degrees(20))
BoxBGap == Box(Degrees(10) + 10000, Degrees(10) + 10000, Degrees(20), Degrees(20))

GridBoxes ==
    {Box(w, s, e, n) : w \in 0..MaxCoord, s \in 0..MaxCoord, e \in 0..MaxCoord,
                       n \in 0..MaxCoord}

TestBoxes == {b \in GridBoxes : b.minLng <= b.maxLng /\ b.minLat <= b.maxLat}
                 \cup {BoxA, BoxB, BoxBGap}

InitBounds ==
    /\ regionIdx = 1
    /\ phase = "bounds"
    /\ inputExists = [r \in RegionSet |-> TRUE]
    /\ inFeatures = FALSE
    /\ currentFeature = <<>>
    /\ braceDepth = 0
    /\ lineCount = 0
    /\ currentChunk = <<>>
    /\ chunkIndex = 0
    /\ featureCount = 0
    /\ files = [r \in RegionSet |-> NoFile]
    /\ totalFeatures = 0
    /\ reports = <<>>
    /\ input = <<>>
    /\ linesRead = 0
    /\ failures = 0
    /\ swallowed = 0
    /\ counted = <<>>
    /\ writer = ""
    /\ tileIndex = <<>>
    /\ result = <<>>
    /\ removed = {}

\* this.boundsIntersect(b1, b2)
IntersectBoxes(b1, b2) ==
    /\ phase = "bounds"
    /\ phase' = "compared"
    /\ result' = [b1 |-> b1, b2 |-> b2, intersects |-> BoundsIntersect(b1, b2)]
    /\ UNCHANGED <<regionIdx, inputExists, inFeatures, currentFeature, braceDepth,
                   lineCount, currentChunk, chunkIndex, featureCount, files,
                   totalFeatures, reports, input, linesRead, failures, swallowed,
                   counted, writer, tileIndex, removed>>

NextBounds == \E b1 \in TestBoxes, b2 \in TestBoxes : IntersectBoxes(b1, b2)

SpecBounds == InitBounds /\ [][NextBounds]_vars

---------------------------------------------------------------------------
(* boundsIntersect on any pair of boxes: the boxes of the grid with their
   corners in any order, the bounds calculateBounds gives a geometry without
   positions, and a box with a NaN edge *)

AnyBoxes ==
    GridBoxes \cup {Box(Infinity, Infinity, NegInfinity, NegInfinity),
                    Box(NaN, 0, 1, 1), Box(0, 0, 1, NaN)}

NextAnyBounds == \E b1 \in AnyBoxes, b2 \in AnyBoxes : IntersectBoxes(b1, b2)

SpecAnyBounds == InitBounds /\ [][NextAnyBounds]_vars

---------------------------------------------------------------------------
(* optimizeProperties of GeoJSONProcessor and FeatureProcessor
   (tile-generator.js) on its own.  A property value is a record of one
   shape: t is "string", "number", "boolean" or "null". *)

PStr(s)  == [t |-> "string", n |-> 0, s |-> s]
PNum(x)  == [t |-> "number", n |-> x, s |-> ""]
PBool(b) == [t |-> "boolean", n |-> IF b THEN 1 ELSE 0, s |-> ""]
PNull    == [t |-> "null", n |-> 0, s |-> ""]

\* if (v): false for "", 0, NaN, false and null
Truthy(v) ==
    ~(\/ v = PStr("")
      \/ (v.t = "number" /\ v.n \in {0, NaN})
      \/ v = PBool(FALSE)
      \/ v = PNull)

\* feature.properties: absent, or an object with some fields
NoProperties == [defined |-> FALSE, fields |-> <<>>]
Properties(fields) == [defined |-> TRUE, fields |-> fields]

\* const fields = ['NAME', 'DESIG', ...]
Fields == <<"NAME", "DESIG", "DESIG_ENG", "IUCN_CAT", "ISO3", "REP_AREA", "WDPAID", "MARINE">>

\* the key GeoJSONProcessor.optimizeProperties stores a field under
EssentialKey(field) ==
    CASE field = "NAME"      -> "name"
      [] field = "DESIG"     -> "designation"
      [] field = "DESIG_ENG" -> "designation_en"
      [] field = "IUCN_CAT"  -> "iucn_category"
      [] field = "ISO3"      -> "country"
      [] field = "REP_AREA"  -> "area"
      [] field = "WDPAID"    -> "wdpaid"
      [] field = "MARINE"    -> "marine"

\* field.toLowerCase()
ToLowerCase(field) ==
    CASE field = "NAME"      -> "name"
      [] field = "DESIG"     -> "desig"
      [] field = "DESIG_ENG" -> "desig_eng"
      [] field = "IUCN_CAT"  -> "iucn_cat"
      [] field = "ISO3"      -> "iso3"
      [] field = "REP_AREA"  -> "rep_area"
      [] field = "WDPAID"    -> "wdpaid"
      [] field = "MARINE"    -> "marine"

\* the fields of a properties object that are on the list
Present(properties) ==
    {Fields[i] : i \in 1..Len(Fields)} \cap DOMAIN properties.fields

\* the object built by `essential[key] = properties[field]` for the fields
\* kept, keys[field] being the key a field is stored under
Essential(properties, keys, kept) ==
    [k \in {keys[f] : f \in kept} |->
        properties.fields[CHOOSE f \in kept : keys[f] = k]]

\* GeoJSONProcessor.optimizeProperties(properties): properties.NAME of an
\* absent properties object throws
GeoOptimizeProperties(properties) ==
    IF ~properties.defined THEN [threw |-> "TypeError", essential |-> <<>>]
    ELSE [threw     |-> "",
          essential |-> Essential(properties,
                                  [f \in Present(properties) |-> EssentialKey(f)],
                                  {f \in Present(properties) : Truthy(properties.fields[f])})]

\* FeatureProcessor.optimizeProperties(properties)
DefinedValue(v) == TRUE
FPOptimizeProperties(properties) ==
    IF ~properties.defined THEN [threw |-> "", essential |-> <<>>]
    ELSE [threw     |-> "",
          essential |-> Essential(properties,
                                  [f \in Present(properties) |-> ToLowerCase(f)],
                                  {f \in Present(properties) : DefinedValue(properties.fields[f])})]

MaxKeys == 2

SampleKeys == {"NAME", "REP_AREA", "MARINE", "OTHER"}

SampleValues == {PStr("Park"), PStr(""), PNum(0), PNum(12), PBool(FALSE), PBool(TRUE)}

\* the properties objects of the source features
SourceProperties ==
    {NoProperties} \cup
    UNION {{Properties(f) : f \in [ks -> SampleValues]} :
              ks \in {s \in SUBSET SampleKeys : Cardinality(s) <= MaxKeys}}

InitProperties ==
    /\ regionIdx = 1
    /\ phase = "properties"
    /\ inputExists = [r \in RegionSet |-> TRUE]
    /\ inFeatures = FALSE
    /\ currentFeature = <<>>
    /\ braceDepth = 0
    /\ lineCount = 0
    /\ currentChunk = <<>>
    /\ chunkIndex = 0
    /\ featureCount = 0
    /\ files = [r \in RegionSet |-> NoFile]
    /\ totalFeatures = 0
    /\ reports = <<>>
    /\ input \in SourceProperties
    /\ linesRead = 0
    /\ failures = 0
    /\ swallowed = 0
    /\ counted = <<>>
    /\ writer \in {"GeoJSONProcessor", "FeatureProcessor"}
    /\ tileIndex = <<>>
    /\ result = <<>>
    /\ removed = {}

\* this.optimizeProperties(feature.properties)
OptimizeProperties ==
    /\ phase = "properties"
    /\ phase' = "optimized"
    /\ result' = IF writer = "GeoJSONProcessor" THEN GeoOptimizeProperties(input)
                 ELSE FPOptimizeProperties(input)
    /\ UNCHANGED <<regionIdx, inputExists, inFeatures, currentFeature, braceDepth,
                   lineCount, currentChunk, chunkIndex, featureCount, files,
                   totalFeatures, reports, input, linesRead, failures, swallowed,
                   counted, writer, tileIndex, removed>>

NextProperties == OptimizeProperties

SpecProperties == InitProperties /\ [][NextProperties]_vars

---------------------------------------------------------------------------
(* The id GeoJSONProcessor and FeatureProcessor (tile-generator.js) give the
   features of one region, on its own.  A source id is a property value or
   absent; the input is the sequence of the ids of a region's features. *)

NoId == [t |-> "undefined", n |-> 0, s |-> ""]

\* feature.id || `${this.region}_${this.featureCount}`, count being
\* this.featureCount when the feature is handed over
FeatureId(w, region, count, id) ==
    IF id # NoId /\ Truthy(id) THEN id ELSE PStr(StoredId(w, region, count))

MaxIds == 3

SampleIds == {NoId, PNum(0), PNum(7), PStr("a7")}

SourceIds == UNION {[1..n -> SampleIds] : n \in 1..MaxIds}

RECURSIVE AssignIds(_, _, _, _)
\* processFeature / addFeature for each feature from the one after `count`:
\* this.featureCount goes up by one per feature and no chunk write changes it
AssignIds(w, region, ids, count) ==
    IF count >= Len(ids) THEN <<>>
    ELSE <<FeatureId(w, region, count, ids[count + 1])>>
             \o AssignIds(w, region, ids, count + 1)

InitIds ==
    /\ regionIdx \in 1..Len(Regions)
    /\ phase = "ids"
    /\ inputExists = [r \in RegionSet |-> TRUE]
    /\ inFeatures = FALSE
    /\ currentFeature = <<>>
    /\ braceDepth = 0
    /\ lineCount = 0
    /\ currentChunk = <<>>
    /\ chunkIndex = 0
    /\ featureCount = 0
    /\ files = [r \in RegionSet |-> NoFile]
    /\ totalFeatures = 0
    /\ reports = <<>>
    /\ input \in SourceIds
    /\ linesRead = 0
    /\ failures = 0
    /\ swallowed = 0
    /\ counted = <<>>
    /\ writer \in {"GeoJSONProcessor", "FeatureProcessor"}
    /\ tileIndex = <<>>
    /\ result = <<>>
    /\ removed = {}

\* a region's features handed to the writer one after the other
IdentifyFeatures ==
    /\ phase = "ids"
    /\ phase' = "identified"
    /\ result' = AssignIds(writer, Regions[regionIdx], input, 0)
    /\ UNCHANGED <<regionIdx, inputExists, inFeatures, currentFeature, braceDepth,
                   lineCount, currentChunk, chunkIndex, featureCount, files,
                   totalFeatures, reports, input, linesRead, failures, swallowed,
                   counted, writer, tileIndex, removed>>

NextIds == IdentifyFeatures

SpecIds == InitIds /\ [][NextIds]_vars

---------------------------------------------------------------------------
(* The CORS proxy (cors-proxy-2/server.js): one request to the HTTP or the
   HTTPS listener, and the upstream request it may start.  `input` is the
   request, `result` the response object `res` together with the number of
   upstream requests made and the upstream response received. *)

HeaderNames ==
    {"access-control-allow-origin", "access-control-allow-methods",
     "access-control-allow-headers", "content-type"}

\* String.prototype.toLowerCase on a header name
LowerCase(name) ==
    IF name = "Access-Control-Allow-Origin" THEN "access-control-allow-origin"
    ELSE IF name = "Access-Control-Allow-Methods" THEN "access-control-allow-methods"
    ELSE IF name = "Access-Control-Allow-Headers" THEN "access-control-allow-headers"
    ELSE IF name = "Content-Type" THEN "content-type"
    ELSE name

\* res.setHeader(name, value): header names are case-insensitive
SetHeader(headers, name, value) == [headers EXCEPT ![LowerCase(name)] = value]

\* a new ServerResponse: statusCode 200 and no header set ("" is no header)
NewResponse ==
    [statusCode |-> 200, headers |-> [h \in HeaderNames |-> ""], ended |-> FALSE,
     upstream |-> 0, proxyRes |-> [statusCode |-> 0, rawHeaders |-> <<>>]]

\* the three res.setHeader calls every request starts with
CorsHeaders(headers) ==
    SetHeader(SetHeader(SetHeader(headers,
        "Access-Control-Allow-Origin", "*"),
        "Access-Control-Allow-Methods", "GET, POST, OPTIONS, PUT, PATCH, DELETE"),
        "Access-Control-Allow-Headers", "Content-Type, Authorization, X-Requested-With")

\* the strings a request can name as its target
TargetUrls == {"https://example.com/a", "example.com/a", "http://["}

\* new URL(targetUrl) does not throw
ParsesAsUrl(targetUrl) == targetUrl = "https://example.com/a"

\* targetUrl.includes('://')
IncludesScheme(targetUrl) == targetUrl \in {"https://example.com/a", "http://["}

\* handleRawRequest(req, res, targetUrl) up to its return: the catch answers
\* 400, otherwise protocol.request(...) has started an upstream request
HandleRawRequest(res, targetUrl) ==
    IF ~ParsesAsUrl(targetUrl) THEN [res EXCEPT !.statusCode = 400, !.ended = TRUE]
    ELSE [res EXCEPT !.upstream = @ + 1]

\* handleStandardProxy(req, res)
HandleStandardProxy(req, res) ==
    LET targetUrl == req.rest
        fullUrl   == IF IncludesScheme(targetUrl) THEN targetUrl
                     ELSE "https://" \o targetUrl
    IN  IF targetUrl = "" THEN [res EXCEPT !.statusCode = 400, !.ended = TRUE]
        ELSE HandleRawRequest(res, fullUrl)

Methods == {"GET", "POST", "OPTIONS"}

\* a request: the listener it reached, its method, parsedUrl.pathname ("/*"
\* is any other path, `rest` being req.url without the leading slash) and
\* parsedUrl.query.url ("" when absent)
Requests ==
    {[server |-> s, method |-> m, pathname |-> p, rest |-> r, url |-> u] :
        s \in {"http", "https"}, m \in Methods, p \in {"/", "/raw", "/*"},
        r \in TargetUrls \cup {""}, u \in TargetUrls \cup {""}}

InitProxy ==
    /\ regionIdx = 1
    /\ phase = "request"
    /\ inputExists = [r \in RegionSet |-> TRUE]
    /\ inFeatures = FALSE
    /\ currentFeature = <<>>
    /\ braceDepth = 0
    /\ lineCount = 0
    /\ currentChunk = <<>>
    /\ chunkIndex = 0
    /\ featureCount = 0
    /\ files = [r \in RegionSet |-> NoFile]
    /\ totalFeatures = 0
    /\ reports = <<>>
    /\ input \in {req \in Requests : (req.pathname = "/*") <=> (req.rest # "")}
    /\ linesRead = 0
    /\ failures = 0
    /\ swallowed = 0
    /\ counted = <<>>
    /\ writer = ""
    /\ tileIndex = <<>>
    /\ result = NewResponse
    /\ removed = {}

proxyFrame == <<regionIdx, inputExists, inFeatures, currentFeature, braceDepth,
                lineCount, currentChunk, chunkIndex, featureCount, files,
                totalFeatures, reports, input, linesRead, failures, swallowed,
                counted, writer, tileIndex, removed>>

\* handleRequest(req, res), and the request handler of the HTTPS listener
HandleRequest ==
    /\ phase = "request"
    /\ LET req == input
           res == [result EXCEPT !.headers = CorsHeaders(@)]
           out == IF req.method = "OPTIONS"
                  THEN [res EXCEPT !.statusCode = 200, !.ended = TRUE]
                  ELSE IF req.pathname = "/raw" /\ req.url # ""
                  THEN HandleRawRequest(res, req.url)
                  ELSE IF req.server = "http" /\ req.pathname = "/" /\ req.url # ""
                  THEN HandleRawRequest(res, req.url)
                  ELSE IF req.pathname # "/" /\ req.pathname # "/raw"
                  THEN HandleStandardProxy(req, res)
                  ELSE [res EXCEPT !.statusCode = 400, !.ended = TRUE]
       IN  /\ result' = out
           /\ phase' = IF out.ended THEN "answered" ELSE "upstream"
    /\ UNCHANGED proxyFrame

\* the headers an upstream response can carry, as sent
UpstreamHeaders ==
    {<<>>,
     <<<<"Content-Type", "text/html">>>>,
     <<<<"Access-Control-Allow-Origin", "https://a.example">>>>,
     <<<<"access-control-allow-origin", "null">>, <<"Content-Type", "text/html">>>>,
     <<<<"Access-Control-Allow-Methods", "GET">>,
       <<"Access-Control-Allow-Origin", "https://a.example">>>>}

\* proxyRes.statusCode, 0 standing for an undefined one
UpstreamStatus == {0, 200, 404}

\* http.IncomingMessage.headers: the names in lower case
IncomingHeaders(raw) == [i \in 1..Len(raw) |-> <<LowerCase(raw[i][1]), raw[i][2]>>]

ForwardsAnyHeader(key) == TRUE
\* key.toLowerCase() !== 'access-control-allow-origin'
ForwardsHeader(key) == LowerCase(key) # "access-control-allow-origin"

RECURSIVE ForwardHeaders(_, _, _)
\* Object.keys(proxyRes.headers).forEach(key => ...) from key i on
ForwardHeaders(headers, incoming, i) ==
    IF i > Len(incoming) THEN headers
    ELSE ForwardHeaders(IF ForwardsHeader(incoming[i][1])
                        THEN SetHeader(headers, incoming[i][1], incoming[i][2])
                        ELSE headers,
                        incoming, i + 1)

\* the callback of protocol.request: status and headers forwarded, body piped
UpstreamResponse(status, raw) ==
    /\ phase = "upstream"
    /\ result' = [result EXCEPT !.statusCode = IF status = 0 THEN 200 ELSE status,
                                !.headers = ForwardHeaders(@, IncomingHeaders(raw), 1),
                                !.ended = TRUE,
                                !.proxyRes = [statusCode |-> status, rawHeaders |-> raw]]
    /\ phase' = "answered"
    /\ UNCHANGED proxyFrame

\* proxyReq.on('error', ...)
UpstreamError ==
    /\ phase = "upstream"
    /\ result' = [result EXCEPT !.statusCode = 500, !.ended = TRUE]
    /\ phase' = "answered"
    /\ UNCHANGED proxyFrame

\* proxyReq.setTimeout(30000, ...)
UpstreamTimeout ==
    /\ phase = "upstream"
    /\ result' = [result EXCEPT !.statusCode = 504, !.ended = TRUE]
    /\ phase' = "answered"
    /\ UNCHANGED proxyFrame

NextProxy ==
    \/ HandleRequest
    \/ \E status \in UpstreamStatus, raw \in UpstreamHeaders : UpstreamResponse(status, raw)
    \/ UpstreamError
    \/ UpstreamTimeout

SpecProxy == InitProxy /\ [][NextProxy]_vars

---------------------------------------------------------------------------
(* Reading of a whole input as a JSON document, used to state the claims *)

\* the region whose stream closed last, while its input is still in `input`
ClosedRegion ==
    /\ phase \in {"idle", "finished"}
    /\ regionIdx > 1
    /\ inputExists[Regions[regionIdx - 1]]

LastRegion == Regions[regionIdx - 1]

RECURSIVE FlatLine(_, _, _)
FlatLine(line, lineNo, i) ==
    IF i > Len(line) THEN <<>>
    ELSE (IF line[i] = " " THEN <<>> ELSE <<[ch |-> line[i], at |-> <<lineNo, i>>]>>)
         \o FlatLine(line, lineNo, i + 1)

RECURSIVE FlatFrom(_, _)
FlatFrom(lines, l) ==
    IF l > Len(lines) THEN <<>> ELSE FlatLine(lines[l], l, 1) \o FlatFrom(lines, l + 1)

Flat(lines) == FlatFrom(lines, 1)

DocText(lines) == [i \in 1..Len(Flat(lines)) |-> Flat(lines)[i].ch]

\* the position of the opening bracket of the features array, 0 if there is none
ArrayOpen(text) ==
    IF \E m \in 1..(Len(text) - 1) : text[m] = "M"
    THEN (CHOOSE m \in 1..(Len(text) - 1) : text[m] = "M") + 1
    ELSE 0

\* the position of the bracket closing the array opened at a
ArrayClose(text, a) ==
    IF \E j \in (a + 1)..Len(text) : text[j] = "]" /\ DepthBefore(text, j) = 2
    THEN CHOOSE j \in (a + 1)..Len(text) :
             /\ text[j] = "]" /\ DepthBefore(text, j) = 2
             /\ \A j2 \in (a + 1)..(j - 1) : ~(text[j2] = "]" /\ DepthBefore(text, j2) = 2)
    ELSE 0

\* a well-formed document { ... "features": [ object, object, ... ] }
ValidDoc(lines) ==
    LET text == DocText(lines)
        a    == ArrayOpen(text)
        z    == ArrayClose(text, a)
    IN  /\ JsonParses(text)
        /\ Cardinality({m \in 1..Len(text) : text[m] = "M"}) = 1
        /\ a > 0 /\ text[a] = "[" /\ DepthBefore(text, a) = 1
        /\ z > 0
        /\ \A i \in (a + 1)..(z - 1) :
               DepthBefore(text, i) = 2 => text[i] \in {"{", ","}

\* the objects of the features array: <<open, close>> positions in the text
ArrayObjects(text) ==
    LET a == ArrayOpen(text)
        z == ArrayClose(text, a)
    IN  {oc \in ((a + 1)..(z - 1)) \X ((a + 1)..(z - 1)) :
            /\ oc[1] < oc[2]
            /\ text[oc[1]] = "{" /\ DepthBefore(text, oc[1]) = 2
            /\ text[oc[2]] = "}" /\ DepthBefore(text, oc[2]) = 3
            /\ \A j \in (oc[1] + 1)..(oc[2] - 1) :
                   ~(text[j] = "}" /\ DepthBefore(text, j) = 3)}

\* where the well-formed Features with a geometry of a valid document end
SourceFeatures(lines) ==
    LET text == DocText(lines)
    IN  {Flat(lines)[oc[2]].at : oc \in
            {o \in ArrayObjects(text) :
                LET p == JsonParse(SubSeq(text, o[1], o[2]))
                IN  p.ok /\ p.type = "Feature" /\ p.geometry}}

\* the features of a region's complete chunk files, in chunk-index order
RECURSIVE ConcatChunks(_, _)
ConcatChunks(dir, idxs) ==
    IF idxs = {} THEN <<>>
    ELSE LET i == CHOOSE n \in idxs : \A m \in idxs : n <= m
         IN  (IF dir[i].complete THEN dir[i].features ELSE <<>>)
             \o ConcatChunks(dir, idxs \ {i})

Written(r) == ConcatChunks(files[r], DOMAIN files[r])

CompleteIdx(r) == {i \in DOMAIN files[r] : files[r][i].complete}

Before(p, q) == p[1] < q[1] \/ (p[1] = q[1] /\ p[2] < q[2])

InSourceOrder(fs) == \A i, j \in 1..Len(fs) : i < j => Before(fs[i].at, fs[j].at)

Reading(r) == phase \in {"reading", "crashed", "rejected"} /\ r = Regions[regionIdx]

Reported(r) == \E i \in 1..Len(reports) : reports[i].code = r

ReportOf(r) == reports[CHOOSE i \in 1..Len(reports) : reports[i].code = r]

---------------------------------------------------------------------------
(* Claims *)

\* C1: once the stream of a region has closed on a valid FeatureCollection
\* (every write having succeeded), the features of the region's chunks are
\* exactly the well-formed Features with a geometry of the source features
\* array, each written once.
C1_NoFeatureLostOrDuplicated ==
    (ClosedRegion /\ ValidDoc(input) /\ failures = 0) =>
        LET w == Written(LastRegion)
        IN  /\ {w[i].at : i \in 1..Len(w)} = SourceFeatures(input)
            /\ \A i, j \in 1..Len(w) : i # j => w[i].at # w[j].at

\* C2: when the input stream of a region has ended, every feature accepted
\* into the batch and counted in featureCount is in a chunk file, whether
\* or not the input had a line `]`, `],` or `]}`.
C2_RemainderFlushedAtEnd ==
    ClosedRegion =>
        /\ Len(Written(LastRegion)) = ReportOf(LastRegion).featureCount
        /\ currentChunk = <<>>

\* C3: within a region the chunks in ascending index order, followed by the
\* batch still in memory, hold the retained features in source document
\* order; so chunk 0 holds the earliest ones.
C3_OrderPreserved ==
    \A r \in RegionSet :
        /\ InSourceOrder(Written(r))
        /\ Reading(r) => InSourceOrder(Written(r) \o currentChunk)

C3_Witness ==
    \E r \in RegionSet :
        /\ {0, 1} \subseteq CompleteIdx(r)
        /\ Before(files[r][0].features[1].at, files[r][1].features[1].at)

\* C4: the chunk files a run has written for a region have the indices
\* 0..k-1: k is chunkIndex while the region is read (and after an abort),
\* the reported chunk count afterwards; file i holds chunk i; a failed write
\* leaves at most a truncated file at index k.
C4_ChunkIndicesGapFree ==
    \A r \in RegionSet :
        LET k == IF Reading(r) THEN chunkIndex
                 ELSE IF Reported(r) THEN ReportOf(r).chunkCount
                 ELSE 0
        IN  /\ CompleteIdx(r) = 0..(k - 1)
            /\ DOMAIN files[r] \subseteq 0..k
            /\ \A i \in CompleteIdx(r) : files[r][i].chunk = i /\ files[r][i].region = r

C4_Witness ==
    /\ regionIdx = 2
    /\ phase = "reading"
    /\ chunkIndex = 0
    /\ failures > 0
    /\ 0 \in CompleteIdx(Regions[1])

\* C5: a region with n retained features and threshold k has exactly
\* ceil(n/k) chunk files, all but the last of k features, the last of 1..k.
C5_ChunkCounts ==
    ClosedRegion =>
        LET n   == ReportOf(LastRegion).featureCount
            k   == FeaturesPerChunk
            dir == files[LastRegion]
            c   == (n + k - 1) \div k
        IN  /\ DOMAIN dir = 0..(c - 1)
            /\ \A i \in DOMAIN dir :
                   /\ dir[i].complete
                   /\ i < c - 1 => Len(dir[i].features) = k
                   /\ i = c - 1 => Len(dir[i].features) \in 1..k

\* C6: the batch holds fewer than featuresPerChunk features whenever a
\* feature has been handled (every state here lies between two handlers).
C6_BatchBounded == Len(currentChunk) < FeaturesPerChunk

\* C7: a failed chunk write is fatal for the region: it has reached the
\* caller, so the region reads no further line and the write is not retried.
C7_WriteFailureFatal == failures > 0 => phase \in {"crashed", "rejected"}

\* C10: a truncated or otherwise invalid object between two valid features
\* yields exactly 2 emitted features and no exception.
C10_MalformedBetweenValid ==
    (\E bad \in {LBad, LOpen} : input = <<LMarker, LFeat, bad, LFeat>>) =>
        featureCount = 2 /\ phase # "crashed"

---------------------------------------------------------------------------
(* Claims on the inspector's scanner *)

\* the lines the character loop scans: after a marker line, up to an end line
RECURSIVE ScannedLines(_, _, _)
ScannedLines(lines, l, inside) ==
    IF l > Len(lines) THEN {}
    ELSE IF Includes(lines[l], "M") /\ Includes(lines[l], "[")
    THEN ScannedLines(lines, l + 1, TRUE)
    ELSE IF ~inside THEN ScannedLines(lines, l + 1, FALSE)
    ELSE IF IsArrayEnd(Trim(lines[l])) THEN ScannedLines(lines, l + 1, FALSE)
    ELSE {l} \cup ScannedLines(lines, l + 1, TRUE)

RECURSIVE RawFrom(_, _, _)
RawFrom(lines, l, keep) ==
    IF l > Len(lines) THEN <<>>
    ELSE (IF l \in keep
          THEN [i \in 1..Len(lines[l]) |-> [ch |-> lines[l][i], at |-> <<l, i>>]]
          ELSE <<>>)
         \o RawFrom(lines, l + 1, keep)

\* the objects of the scanned text by their true brace nesting: where each
\* one closes and how long its text is
RECURSIVE TrueObjects(_, _, _, _)
TrueObjects(flat, i, depth, start) ==
    IF i > Len(flat) THEN {}
    ELSE IF flat[i].ch = "{"
    THEN TrueObjects(flat, i + 1, depth + 1, IF depth = 0 THEN i ELSE start)
    ELSE IF flat[i].ch = "}" /\ depth > 0
    THEN (IF depth = 1 THEN {[at |-> flat[i].at, len |-> i - start + 1]} ELSE {})
         \cup TrueObjects(flat, i + 1, depth - 1, start)
    ELSE TrueObjects(flat, i + 1, depth, start)

SourceObjects(lines) ==
    TrueObjects(RawFrom(lines, 1, ScannedLines(lines, 1, FALSE)), 1, 0, 0)

\* C8: the accumulator never exceeds the ceiling by more than one character,
\* whatever the characters are.
C8_AccumulatorBounded == Len(currentFeature) <= Ceiling + 1

\* C9: a feature whose text exceeds the ceiling is dropped whole: what is
\* counted is an object of the features array (never a fragment of one)
\* within the ceiling, and every object within the ceiling is counted.
C9_OversizedDroppedWhole ==
    LET objs == SourceObjects(input)
    IN  /\ \A i \in 1..Len(counted) :
               \E o \in objs : o.at = counted[i] /\ o.len <= Ceiling
        /\ \A o \in objs :
               o.len <= Ceiling => \E i \in 1..Len(counted) : counted[i] = o.at

\* the text of the object o of the scanned lines, as the scanner accumulates it
ObjectText(lines, o) ==
    LET flat == RawFrom(lines, 1, ScannedLines(lines, 1, FALSE))
        z    == CHOOSE i \in 1..Len(flat) : flat[i].at = o.at
    IN  [i \in 1..o.len |-> flat[z - o.len + i].ch]

IsFeatureText(text) ==
    LET p == JsonParse(CleanFeature(text)) IN p.ok /\ p.type = "Feature"

\* C11: an object that fails to parse, or whose type is not "Feature", is
\* skipped: every object the inspector counted (the ceiling aside) parses as
\* JSON and has type "Feature".
C11_MalformedSkipped ==
    \A i \in 1..Len(counted) :
        \A o \in SourceObjects(input) :
            (o.at = counted[i] /\ o.len <= Ceiling) => IsFeatureText(ObjectText(input, o))

\* the same statement for the chunking pipelines, whose features carry the
\* position they were delimited at
PipelineSkipsMalformed ==
    phase \in {"reading", "crashed", "rejected"} =>
        LET fs == Written(Regions[regionIdx]) \o currentChunk
        IN  /\ \A i \in 1..Len(fs) :
                   \E o \in SourceObjects(input) :
                       o.at = fs[i].at /\ IsFeatureText(ObjectText(input, o))
            /\ featureCount <= Cardinality({o \in SourceObjects(input) :
                                               IsFeatureText(ObjectText(input, o))})

\* C12: a feature without geometry is dropped by every pipeline variant: no
\* feature in a chunk or in the batch comes from an object without geometry,
\* and such an object is not counted.
C12_NoGeometryDropped ==
    phase \in {"reading", "crashed", "rejected"} =>
        LET fs   == Written(Regions[regionIdx]) \o currentChunk
            objs == SourceObjects(input)
        IN  /\ \A i \in 1..Len(fs) :
                   \E o \in objs :
                       o.at = fs[i].at /\ JsonParse(CleanFeature(ObjectText(input, o))).geometry
            /\ featureCount <= Cardinality({o \in objs :
                                   JsonParse(CleanFeature(ObjectText(input, o))).geometry})

---------------------------------------------------------------------------
(* Claims on the spatial index and the tile query *)

FiniteBox(b) ==
    IsFinite(b.minLng) /\ IsFinite(b.minLat) /\ IsFinite(b.maxLng) /\ IsFinite(b.maxLat)

\* C13: the spatial index never contains an entry whose bounds are NaN or
\* +/-Infinity.
C13_IndexBoundsFinite ==
    \A r \in DOMAIN tileIndex :
        \A i \in 1..Len(tileIndex[r]) : FiniteBox(tileIndex[r][i].bounds)

\* a getFeaturesForTile call has returned or thrown
HasResult == DOMAIN result # {}

\* C14: a query that meets an index entry whose chunk file is absent fails
\* with a stale-index condition and the region's index is rebuilt from the
\* chunk files now present; no other error leaves the call.
C14_StaleIndexRebuilt ==
    (HasResult /\ result.threw # "") =>
        /\ result.threw = "StaleIndex"
        /\ tileIndex[result.region] = SpatialIndex(result.region)

\* the first chunk index of a region for which there is no file
FirstMissing(region) ==
    CHOOSE k \in 0..(Cardinality(DOMAIN files[region]) + 1) :
        /\ ~ExistsSync(LoadPath(region, k))
        /\ \A n \in 0..(k - 1) : ExistsSync(LoadPath(region, n))

\* the chunks before the first missing one, as read from their files
ChunksBeforeGap(region) ==
    LET k == FirstMissing(region)
    IN  [c \in 1..k |-> ReadChunk(LoadPath(region, c - 1))]

\* the index holds one entry per feature of the given chunks, in (chunk,
\* feature) order, each with the bounds of its feature
IndexMatches(index, region, chunks) ==
    /\ \A n \in 1..Len(index) :
           /\ index[n].region = region
           /\ index[n].chunk \in 0..(Len(chunks) - 1)
           /\ index[n].feature \in 0..(Len(chunks[index[n].chunk + 1].features) - 1)
           /\ index[n].bounds =
                  CalculateBounds(chunks[index[n].chunk + 1]
                                      .features[index[n].feature + 1].geometry)
    /\ \A m, n \in 1..Len(index) :
           m < n => \/ index[m].chunk < index[n].chunk
                    \/ /\ index[m].chunk = index[n].chunk
                       /\ index[m].feature < index[n].feature
    /\ \A c \in 1..Len(chunks) : \A i \in 1..Len(chunks[c].features) :
           \E n \in 1..Len(index) : index[n].chunk = c - 1 /\ index[n].feature = i - 1

\* no chunk file of the region was removed while the region had an index
IndexFresh(region) == \A x \in removed : x.region = region => ~x.indexed

\* C15: an index built by createSpatialIndex covers chunks 0, 1, 2, ... up to
\* the first missing index and no chunk after it, with one entry per feature
\* in (chunk, feature) order, entry (c, i) carrying the bounds of feature i of
\* chunk c.
C15_BuildIndex ==
    \A r \in DOMAIN tileIndex :
        IndexFresh(r) => IndexMatches(tileIndex[r], r, ChunksBeforeGap(r))

\* an index built as empty because chunk 0 is gone while chunk 1 is there,
\* next to an index of three entries over two chunks
C15_Witness ==
    \E r, q \in RegionSet :
        /\ r \in DOMAIN tileIndex /\ q \in DOMAIN tileIndex
        /\ removed = {[region |-> r, chunk |-> 0, indexed |-> FALSE]}
        /\ ExistsSync(LoadPath(r, 1))
        /\ tileIndex[r] = <<>>
        /\ Len(tileIndex[q]) = 3 /\ tileIndex[q][3].chunk = 1 /\ tileIndex[q][2].feature = 1
        /\ tileIndex[q][1].bounds # tileIndex[q][2].bounds

\* C16: every chunk written for region r with index n is stored under the
\* name <r>_chunk_<n>.json in the directory the index builder reads, so an
\* index built after the writer finished has entries from every chunk file
\* written for the region.
C16_WrittenChunksFound ==
    (phase = "serving" /\ removed = {}) =>
        /\ \A r \in RegionSet : \A n \in DOMAIN files[r] :
               WriterPath(writer, r, n) = LoadPath(r, n)
        /\ \A r \in DOMAIN tileIndex :
               {tileIndex[r][i].chunk : i \in 1..Len(tileIndex[r])} = DOMAIN files[r]

\* the coordinate pairs of a coordinate tree, whatever its nesting
RECURSIVE PositionSet(_)
PositionSet(v) ==
    IF v.t # "arr" THEN {}
    ELSE IF Len(v.a) >= 2 /\ \A i \in 1..Len(v.a) : v.a[i].t = "num"
    THEN {<<v.a[1].n, v.a[2].n>>}
    ELSE UNION {PositionSet(v.a[i]) : i \in 1..Len(v.a)}

GeometryPositions(geometry) ==
    IF geometry.t = "undefined" THEN {} ELSE PositionSet(geometry.coordinates)

\* the bounding box of a nonempty set of coordinate pairs
BoxOf(ps) ==
    [minLng |-> CHOOSE x \in {p[1] : p \in ps} : \A p \in ps : x <= p[1],
     minLat |-> CHOOSE y \in {p[2] : p \in ps} : \A p \in ps : y <= p[2],
     maxLng |-> CHOOSE x \in {p[1] : p \in ps} : \A p \in ps : x >= p[1],
     maxLat |-> CHOOSE y \in {p[2] : p \in ps} : \A p \in ps : y >= p[2]]

\* two boxes overlap or touch in both axes
Overlap(a, b) ==
    /\ a.minLng <= b.maxLng /\ b.minLng <= a.maxLng
    /\ a.minLat <= b.maxLat /\ b.minLat <= a.maxLat

\* the features of chunks in (chunk, feature) order
RECURSIVE AllFeatures(_)
AllFeatures(chunks) ==
    IF chunks = <<>> THEN <<>> ELSE Head(chunks).features \o AllFeatures(Tail(chunks))

\* the features whose bounding box intersects bounds, in the order given
RECURSIVE Intersecting(_, _)
Intersecting(features, bounds) ==
    IF features = <<>> THEN <<>>
    ELSE (IF /\ GeometryPositions(Head(features).geometry) # {}
             /\ Overlap(BoxOf(GeometryPositions(Head(features).geometry)), bounds)
          THEN <<Head(features)>> ELSE <<>>)
         \o Intersecting(Tail(features), bounds)

\* C17: a query on chunk files that did not change under the index returns,
\* in index order, exactly the stored features of the region whose bounding
\* box intersects the query bounds, each as stored, for every zoom, and leaves
\* an existing index as it was.
C17_QueryResult ==
    (HasResult /\ removed = {}) =>
        /\ result.threw = ""
        /\ result.features =
               Intersecting(AllFeatures(ChunksBeforeGap(result.region)), result.bounds)
        /\ ~result.indexChanged

Inside(x, y, b) == b.minLng <= x /\ x <= b.maxLng /\ b.minLat <= y /\ y <= b.maxLat

\* some point lies in both closed boxes; if any does, one with the
\* coordinates of box edges does
SharePoint(a, b) ==
    \E x \in {a.minLng, a.maxLng, b.minLng, b.maxLng},
       y \in {a.minLat, a.maxLat, b.minLat, b.maxLat} :
        Inside(x, y, a) /\ Inside(x, y, b)

\* C18: boundsIntersect(a, b) is true exactly when the boxes have a point in
\* common, an edge or corner point included: {0,0,10,10} and {10,10,20,20}
\* intersect, {0,0,10,10} and {10.01,10.01,20,20} do not.
C18_BoundsIntersect ==
    phase = "compared" =>
        /\ result.intersects <=> SharePoint(result.b1, result.b2)
        /\ (result.b1 = BoxA /\ result.b2 = BoxB) => result.intersects
        /\ (result.b1 = BoxA /\ result.b2 = BoxBGap) => ~result.intersects

\* the corner-touching pair of boxes has been compared and found to intersect
C18_Witness ==
    /\ phase = "compared"
    /\ result.b1 = BoxA /\ result.b2 = BoxB /\ result.intersects

---------------------------------------------------------------------------
(* Claims on the coordinate optimizers *)

\* every number of a coordinate tree rounded to 5 decimal places, the tree
\* otherwise as it is
RECURSIVE RoundTree(_)
RoundTree(v) ==
    IF v.t = "arr" THEN Arr([i \in 1..Len(v.a) |-> RoundTree(v.a[i])])
    ELSE IF v.t = "num" THEN Num(Round5(v.n))
    ELSE v

\* the features a writer has stored so far, in chunk files and in the batch
StoredFeatures ==
    UNION {{files[r][n].features[i] : i \in 1..Len(files[r][n].features)} :
              <<r, n>> \in UNION {{<<r, n>> : n \in DOMAIN files[r]} : r \in RegionSet}}
        \cup {currentChunk[i] : i \in 1..Len(currentChunk)}

\* the geometry a stored feature had in its input file
RawGeometry(f) == InputOf(f.at[1])[f.at[2]].geometry

\* C20: the optimizers of MemorySafeProcessor and GeoJSONProcessor round
\* every longitude and latitude to 5 decimal places at every nesting depth,
\* a Point's bare pair included, and keep the shape of the coordinate tree.
C20_RoundedEverywhere ==
    (phase \in {"processing", "serving"} /\ writer \in {"MemorySafeProcessor", "GeoJSONProcessor"}) =>
        \A f \in StoredFeatures :
            RawGeometry(f).coordinates.t = "arr" =>
                f.geometry.coordinates = RoundTree(RawGeometry(f).coordinates)

\* C19: for every stored feature with at least one coordinate, whatever the
\* nesting depth of its geometry, the bounds computed from the optimized
\* geometry are a valid box that contains every rounded coordinate of the
\* feature.
C19_BoundsContainRounded ==
    (phase \in {"processing", "serving"} /\ writer \in {"MemorySafeProcessor", "GeoJSONProcessor"}) =>
        \A f \in StoredFeatures :
            LET ps == GeometryPositions(RawGeometry(f))
                b  == CalculateBounds(f.geometry)
            IN  ps # {} =>
                    /\ FiniteBox(b)
                    /\ b.minLng <= b.maxLng /\ b.minLat <= b.maxLat
                    /\ \A p \in ps : Inside(Round5(p[1]), Round5(p[2]), b)

---------------------------------------------------------------------------
(* Claims on the property reduction *)

\* the fields of the allow-list as the optimized feature names them
AllowList ==
    {"name", "designation", "designation_en", "iucn_category", "country", "area",
     "wdpaid", "marine"}

\* C21: the optimized properties hold only allow-listed fields; each
\* allow-listed field is in the output exactly when its source field is in
\* the source properties, with the source value, also when that value is 0,
\* false or the empty string; unknown source keys never appear.
C21_AllowListCopied ==
    (phase = "optimized" /\ input.defined) =>
        /\ result.threw = ""
        /\ DOMAIN result.essential \subseteq AllowList
        /\ \A i \in 1..Len(Fields) :
               LET k == EssentialKey(Fields[i])
               IN  /\ k \in DOMAIN result.essential <=>
                          Fields[i] \in DOMAIN input.fields
                   /\ k \in DOMAIN result.essential =>
                          result.essential[k] = input.fields[Fields[i]]

---------------------------------------------------------------------------
(* Claims on processAllRegions *)

\* the sum of the feature counts reported for the regions processed
RECURSIVE SumCounts(_)
SumCounts(rs) == IF rs = <<>> THEN 0 ELSE Head(rs).featureCount + SumCounts(Tail(rs))

\* the regions processAllRegions has dealt with
RegionsDone == {Regions[i] : i \in 1..(regionIdx - 1)}

\* C22: between two regions and at the end of processAllRegions, a region
\* whose input file is missing has been skipped (no result, no chunk file, a
\* count of zero), every other region dealt with has been processed, and the
\* total is the sum of the counts of the regions whose files exist.
C22_MissingFileSkipped ==
    phase \in {"idle", "finished"} =>
        /\ \A r \in RegionsDone :
               IF inputExists[r] THEN Reported(r)
               ELSE ~Reported(r) /\ files[r] = NoFile
        /\ totalFeatures = SumCounts(reports)

\* C23: regions are processed strictly one after another.  processAllRegions
\* moves to the next region only from a region whose stream has closed and
\* whose result has been reported (or whose file is missing); the counters
\* are reset for a region only between regions, every earlier region with a
\* file having been reported; a line is handled only for the region in hand,
\* which has no result yet.
C23_OneRegionAtATime ==
    [][/\ regionIdx' # regionIdx =>
              /\ regionIdx' = regionIdx + 1
              /\ inputExists[Regions[regionIdx]] =>
                     /\ phase = "reading"
                     /\ Len(reports') = Len(reports) + 1
                     /\ reports'[Len(reports')].code = Regions[regionIdx]
                     /\ reports'[Len(reports')].featureCount = featureCount
       /\ (phase' = "reading" /\ lineCount' = 0) =>
              /\ phase = "idle"
              /\ regionIdx' = regionIdx
              /\ \A r \in RegionsDone : inputExists[r] => Reported(r)
       /\ lineCount' > lineCount =>
              /\ phase = "reading" /\ regionIdx' = regionIdx
              /\ lineCount' = lineCount + 1
              /\ ~Reported(Regions[regionIdx])
              /\ \A r \in RegionsDone : inputExists[r] => Reported(r)]_vars

\* the second region is being read after the first was closed and reported
C23_Witness ==
    /\ regionIdx = 2 /\ phase = "reading" /\ lineCount > 1
    /\ Reported(Regions[1]) /\ ReportOf(Regions[1]).featureCount > 0

---------------------------------------------------------------------------
(* Claims on re-running a region *)

\* a MemorySafeProcessor that has processed nothing, facing an empty output
\* directory
FreshScanner(region) ==
    [currentFeature |-> <<>>,
     braceDepth     |-> 0,
     currentChunk   |-> <<>>,
     chunkIndex     |-> 0,
     featureCount   |-> 0,
     region         |-> region,
     dir            |-> NoFile,
     toFail         |-> 0,
     partial        |-> FALSE,
     failed         |-> 0,
     swallowed      |-> 0,
     threw          |-> FALSE]

\* the line handler run over the lines of an input from that state
RECURSIVE FreshFrom(_, _, _, _)
FreshFrom(lines, l, inside, s) ==
    IF l > Len(lines) THEN s
    ELSE LET trimmed == Trim(lines[l])
         IN  IF IsFeaturesMarker(trimmed) THEN FreshFrom(lines, l + 1, TRUE, s)
             ELSE IF ~inside THEN FreshFrom(lines, l + 1, FALSE, s)
             ELSE IF IsArrayEnd(trimmed) THEN FreshFrom(lines, l + 1, FALSE, WriteChunk(s))
             ELSE FreshFrom(lines, l + 1, TRUE,
                            ScanLine(s, trimmed, 1, l, Indent(lines[l])))

FreshRun(region, lines) == FreshFrom(lines, 1, FALSE, FreshScanner(region))

---------------------------------------------------------------------------
(* Claims on the chunk files as they stand on disk *)

\* C25: at every point, a failure during a write included, each chunk file
\* on disk holds one complete serialized chunk document (or is absent).
C25_NoHalfWrittenChunk ==
    \A r \in RegionSet : \A i \in DOMAIN files[r] : files[r][i].complete

---------------------------------------------------------------------------
(* Claims on coordinate rounding *)

MaxMillionths == 30

\* C26: coordinate rounding is idempotent: a number rounded to 5 decimal
\* places rounds to itself, and the optimizer applied to the geometry it
\* stored gives that geometry again.
C26_RoundingIdempotent ==
    (phase \in {"processing", "serving"} /\ writer \in {"MemorySafeProcessor", "GeoJSONProcessor"}) =>
        /\ \A f \in StoredFeatures : StoredGeometry(writer, f.geometry) = f.geometry
        /\ \A x \in (0 - MaxMillionths)..MaxMillionths : Round5(Round5(x)) = Round5(x)

\* a stored line whose coordinates the rounding changed, a half among them
C26_Witness ==
    /\ writer \in {"MemorySafeProcessor", "GeoJSONProcessor"}
    /\ \E f \in StoredFeatures :
           /\ RawGeometry(f) = GLine
           /\ f.geometry = Geometry("LineString", Arr(<<Pos(0, 0), Pos(20, 0 - 10)>>))

---------------------------------------------------------------------------
(* Claims on the states of the extractor *)

\* C27: the extractor leaves the features array only at brace depth 0, so
\* outside the array no feature is open; a line `]` inside a feature spread
\* over several lines does not end the array and the feature is emitted when
\* it closes.
C27_ArrayEndOnlyAtDepthZero ==
    phase = "reading" =>
        /\ ~inFeatures => braceDepth = 0
        /\ input = <<LMarker, LOpen, LBr, LClose>> => featureCount = 1

\* the lines read so far have taken the extractor into the features array
\* and out of it again
RECURSIVE HasLeftArray(_, _, _)
HasLeftArray(lines, l, inside) ==
    IF l > Len(lines) THEN FALSE
    ELSE IF IsFeaturesMarker(Trim(lines[l])) THEN HasLeftArray(lines, l + 1, TRUE)
    ELSE IF ~inside THEN HasLeftArray(lines, l + 1, FALSE)
    ELSE IF IsArrayEnd(Trim(lines[l])) THEN TRUE
    ELSE HasLeftArray(lines, l + 1, TRUE)

InDone == phase \in {"reading", "inspecting"} /\ HasLeftArray(input, 1, FALSE)

\* C28: Done is absorbing: once the extractor has left the features array,
\* nothing that happens in the same input changes the inside-features flag,
\* the brace depth, the accumulator, the batch or the feature count.
C28_DoneAbsorbing ==
    [][InDone => UNCHANGED <<inFeatures, braceDepth, currentFeature, currentChunk,
                            featureCount>>]_vars

\* no line read so far holds the marker of the features array
InPreamble ==
    /\ phase \in {"reading", "inspecting"}
    /\ \A l \in 1..Len(input) : ~IsFeaturesMarker(Trim(input[l]))

\* C29: while the extractor is in Preamble, and on the marker line that ends
\* it, no feature is emitted and the brace depth, accumulator, batch, chunk
\* index and feature count are unchanged.
C29_PreambleFrame ==
    [][InPreamble => UNCHANGED <<braceDepth, currentFeature, currentChunk, chunkIndex,
                                featureCount, files, counted>>]_vars

\* a feature line was read in Preamble, then the marker line
C29_Witness ==
    /\ phase = "reading"
    /\ input = <<LFeat, LMarker>>
    /\ inFeatures /\ featureCount = 0 /\ braceDepth = 0 /\ currentChunk = <<>>

\* the number of occurrences of a character in a text
Count(text, c) == Cardinality({i \in 1..Len(text) : text[i] = c})

\* the relation between brace depth and accumulator
DepthMatchesAccumulator(depth, text) ==
    /\ depth >= 0
    /\ depth = 0 <=> text = <<>>
    /\ depth > 0 => /\ text[1] = "{"
                    /\ depth = Count(text, "{") - Count(text, "}")

\* the relation holds before character i of a line and after each character
\* from there on
RECURSIVE HoldsThroughLine(_, _, _)
HoldsThroughLine(s, trimmed, i) ==
    /\ DepthMatchesAccumulator(s.braceDepth, s.currentFeature)
    /\ i <= Len(trimmed) => HoldsThroughLine(ScanChar(s, trimmed[i], <<0, i>>), trimmed, i + 1)

RECURSIVE HoldsThroughInspectedLine(_, _, _)
HoldsThroughInspectedLine(s, line, i) ==
    /\ DepthMatchesAccumulator(s.braceDepth, s.currentFeature)
    /\ i <= Len(line) => HoldsThroughInspectedLine(InspectChar(s, line[i], <<0, i>>), line, i + 1)

\* the line a step has read is scanned by the character loop
LineScanned(line) ==
    /\ ~IsFeaturesMarker(Trim(line))
    /\ inFeatures
    /\ ~IsArrayEnd(Trim(line))

\* C30: in every state of the extractor, and after each character of a line
\* the character loop consumes, the brace depth is >= 0, it is 0 exactly when
\* the accumulator is empty, and when it is positive the accumulator starts
\* with `{` and holds depth more `{` than `}`.
C30_DepthInvariants ==
    [][/\ DepthMatchesAccumulator(braceDepth, currentFeature)
       /\ DepthMatchesAccumulator(braceDepth', currentFeature')
       /\ (phase = "reading" /\ Len(input') = Len(input) + 1
               /\ LineScanned(input'[Len(input')])) =>
              HoldsThroughLine(Scanner(0, FALSE), Trim(input'[Len(input')]), 1)
       /\ (phase = "inspecting" /\ Len(input') = Len(input) + 1
               /\ LineScanned(input'[Len(input')])) =>
              HoldsThroughInspectedLine([currentFeature |-> currentFeature,
                                         braceDepth     |-> braceDepth,
                                         featureCount   |-> featureCount,
                                         counted        |-> counted],
                                        input'[Len(input')], 1)]_vars

\* after a feature was emitted, a line has left a nested object open
C30_Witness ==
    /\ phase = "reading"
    /\ input = <<LMarker, LFeat, LOpen>>
    /\ featureCount = 1
    /\ braceDepth = 2 /\ currentFeature = <<"{", "t", "g", "{", "[">>

---------------------------------------------------------------------------
(* Claims on what one region can leave to the next *)

\* C31: with one processor handling the regions in turn, every feature in
\* the chunks or the batch of the region being read was delimited in that
\* region's own input, each once, and a step writes to no other region's
\* chunk directory; so nothing read from region A reaches a chunk of region
\* B, whatever A left in the batch or in the accumulator.
C31_NoCrossRegionLeak ==
    [][/\ phase \in {"reading", "crashed", "rejected"} =>
              LET fs == Written(Regions[regionIdx]) \o currentChunk
              IN  /\ \A i \in 1..Len(fs) :
                         \E o \in SourceObjects(input) : o.at = fs[i].at
                  /\ \A i, j \in 1..Len(fs) : i # j => fs[i].at # fs[j].at
       /\ \A r \in RegionSet :
              (regionIdx > Len(Regions) \/ r # Regions[regionIdx]) => files'[r] = files[r]]_vars

\* the second region has a feature in its batch after the first region
\* ended with a feature left in the batch
C31_Witness ==
    /\ regionIdx = 2 /\ phase = "reading"
    /\ Reported(Regions[1])
    /\ ReportOf(Regions[1]).featureCount > Len(Written(Regions[1]))
    /\ Len(currentChunk) = 1

\* C32: no chunk file with an empty features array is ever written: every
\* chunk document on disk holds at least one feature and states their number,
\* whatever the order of threshold flushes, end-of-array flushes and finish().
C32_NoEmptyChunk ==
    \A r \in RegionSet : \A i \in DOMAIN files[r] :
        files[r][i].complete =>
            /\ Len(files[r][i].features) >= 1
            /\ files[r][i].count = Len(files[r][i].features)

\* the end of the array was reached with an empty batch, right after a
\* threshold flush
C32_Witness ==
    /\ phase = "reading" /\ ~inFeatures /\ failures = 0
    /\ input = <<LMarker, LFeat, LFeat, LEnd>>
    /\ currentChunk = <<>>
    /\ DOMAIN files[Regions[regionIdx]] = {0}

---------------------------------------------------------------------------
(* Claims on a region run again under a serving TileGenerator *)

\* C33: every feature a query returns (and that has coordinates at all; a
\* feature without any is the subject of C13 and C17) has a bounding box that
\* intersects the query bounds, also when the region's chunk files were
\* rewritten after its index was built and cached.
C33_ResultIntersects ==
    (HasResult /\ result.threw = "") =>
        \A i \in 1..Len(result.features) :
            LET ps == GeometryPositions(result.features[i].geometry)
            IN  ps # {} => Overlap(BoxOf(ps), result.bounds)

\* C34: after the pipeline has run for a region, the chunk files present for
\* the region are exactly those of that latest run, with no file of an
\* earlier run left at an index the latest run did not write.
C34_OnlyLatestRunOnDisk ==
    phase = "serving" =>
        \A r \in RegionSet : files[r] = RunWriter(writer, r, InputOf(r), NoFile)

(* Claims on feature ids and on boundsIntersect *)

\* C35: every feature written by GeoJSONProcessor or FeatureProcessor carries
\* an id: a feature with an id in the source, the number 0 included, keeps
\* exactly that id, and the ids generated for the features without one are
\* pairwise distinct within a region.
C35_IdKeptOrDistinct ==
    phase = "identified" =>
        /\ Len(result) = Len(input)
        /\ \A i \in 1..Len(input) : input[i] # NoId => result[i] = input[i]
        /\ \A i, j \in 1..Len(input) :
               (i # j /\ input[i] = NoId /\ input[j] = NoId) => result[i] # result[j]

\* min <= max on both axes
ValidBox(b) ==
    /\ ~(NaN \in {b.minLng, b.maxLng, b.minLat, b.maxLat})
    /\ b.minLng <= b.maxLng
    /\ b.minLat <= b.maxLat

\* C36: boundsIntersect is symmetric, boundsIntersect(a, b) =
\* boundsIntersect(b, a) for all boxes a and b, and every valid box (min <= max
\* on both axes) intersects itself.
C36_SymmetricReflexive ==
    phase = "compared" =>
        /\ result.intersects = BoundsIntersect(result.b2, result.b1)
        /\ (result.b1 = result.b2 /\ ValidBox(result.b1)) => result.intersects

\* a box and the box touching it on one edge have been compared, and a box
\* reduced to a point has been compared with itself
C36_Witness ==
    /\ phase = "compared"
    /\ \/ result.b1 = Box(0, 0, 1, 1) /\ result.b2 = Box(1, 0, 2, 1) /\ result.intersects
       \/ result.b1 = Box(1, 1, 1, 1) /\ result.b2 = result.b1 /\ result.intersects

---------------------------------------------------------------------------
(* Claim on the CORS proxy *)

\* C37: every response the proxy sends carries Access-Control-Allow-Origin: *
\* whatever headers the upstream server returns, and an OPTIONS request is
\* answered with status 200 without any request made to an upstream server.
C37_CorsOnEveryResponse ==
    /\ phase = "answered" =>
           result.ended /\ result.headers["access-control-allow-origin"] = "*"
    /\ (phase \in {"upstream", "answered"} /\ input.method = "OPTIONS") =>
           phase = "answered" /\ result.statusCode = 200 /\ result.upstream = 0

\* an upstream 404 that names its own allowed origin has been forwarded
C37_Witness ==
    /\ phase = "answered"
    /\ result.upstream = 1
    /\ result.statusCode = 404
    /\ \E i \in 1..Len(result.proxyRes.rawHeaders) :
           /\ LowerCase(result.proxyRes.rawHeaders[i][1]) = "access-control-allow-origin"
           /\ result.proxyRes.rawHeaders[i][2] = "https://a.example"
    /\ result.headers["access-control-allow-origin"] = "*"

====
